---- MODULE Spec2Model ----
(***************************************************************************)
(* Image analyzer: the Home page (batch orchestration, handleSubmit) and   *)
(* the /api/analyze POST handler (per-image pipeline: transcode,           *)
(* recognise, price, assess condition, normalise).                         *)
(*                                                                         *)
(* Text values are sequences of one-character strings, so that split,      *)
(* capitalisation and number formatting are computed, not assumed.         *)
(***************************************************************************)
EXTENDS Integers, Sequences, FiniteSets, TLC

VARIABLES
    \* ---- Home component state (useState) ----
    selectedFiles,   \* the chosen files; << >> stands for null or an empty FileList
    loading,
    progress,        \* percent complete as the exact fraction num/den
    results,
    error,
    \* ---- the suspended handleSubmit invocation ----
    cpc,             \* "idle": no invocation suspended; "await": suspended at fetch
    i,               \* loop variable of the batch loop
    allResults,
    filesToProcess,
    \* ---- HTTP between page and route ----
    requests,        \* analyze requests sent and not yet taken by the handler
    responses,       \* responses produced and not yet read by the page
    \* ---- the POST invocation ----
    spc,             \* "idle" | "convert" | "recognize" | "enrich"
    sreq,            \* id of the request being handled
    sfiles,          \* formData.getAll('images')
    sidx,            \* position of the for..of loop (1-based)
    finalResults,
    vision,          \* responses[0] of the recognition reply for the current image
    pend,            \* [cond, price]: the two promises awaited by Promise.all
    \* ---- history ----
    status,          \* run status: "Idle" | "Running" | "Succeeded" | "Failed"
    sent,            \* batch numbers requested in the current run, in order
    received,        \* what came back for each batch of the current run, in order
    log,             \* backend calls issued for the current request, in order
    lastResponse,    \* the response the handler produced last
    fatal,           \* the backend call whose failure ended the current request
    touched,         \* the file selection changed since the current run started
    \* ---- outside React state ----
    download,        \* the file handleExportCsv produced last in the current run
    alerted,         \* the message alert() showed last in the current run
    \* ---- a function applied on its own ----
    arg,             \* the function and the input
    ret              \* what it returned

cvars == <<selectedFiles, loading, progress, results, error>>
hvars == <<cpc, i, allResults, filesToProcess>>
svars == <<spc, sreq, sfiles, sidx, finalResults, vision, pend>>
gvars == <<status, sent, received, touched>>
pvars == <<log, lastResponse, fatal>>
xvars == <<download, alerted>>
fvars == <<arg, ret>>
evars == <<download, alerted, arg, ret>>
vars == <<selectedFiles, loading, progress, results, error, cpc, i, allResults,
          filesToProcess, requests, responses, spc, sreq, sfiles, sidx,
          finalResults, vision, pend, status, sent, received, log,
          lastResponse, fatal, touched, download, alerted, arg, ret>>

----------------------------------------------------------------------------
\* Bounds of the model

\* a selection spans at most this many batches
MaxBatches == 3
\* a single request of the request-level specification holds at most this
\* many images
MaxImages == 2
\* a description given to the brand/model split on its own has at most this
\* many characters (the examples of the tests apart)
MaxDescription == 3
\* an image given to the visual-match normaliser on its own has at most this
\* many matches
MaxMatches == 3
\* a result list given to the exporter on its own has at most this many rows
MaxRows == 2

----------------------------------------------------------------------------
\* Text

NULL == <<"<null>">>
EmptyText == << >>

Truthy(t) == t # NULL /\ t # EmptyText

\* a || b
OrElse(a, b) == IF Truthy(a) THEN a ELSE b

NA == <<"N", "/", "A">>
Hash == <<"#">>
ZeroConfidence == <<"0", ".", "0", "0">>
ConversionErrorBrand ==
    <<"C","O","N","V","E","R","S","I","O","N","_","E","R","R","O","R">>
AiAnalysisFailed ==
    <<"A","I"," ","A","n","a","l","y","s","i","s"," ","F","a","i","l","e","d">>
UnknownItem == <<"U","n","k","n","o","w","n"," ","I","t","e","m">>
NoImagesUploaded ==
    <<"N","o"," ","i","m","a","g","e","s"," ","u","p","l","o","a","d","e",
      "d",".">>
FailedToProcess ==
    <<"F","a","i","l","e","d"," ","t","o"," ","p","r","o","c","e","s","s",
      " ","i","m","a","g","e","s","."," ">>
UnknownError ==
    <<"U","n","k","n","o","w","n"," ","e","r","r","o","r"," ","o","c","c",
      "u","r","r","e","d">>
VisionApiError ==
    <<"V","i","s","i","o","n"," ","A","P","I"," ","E","r","r","o","r",":",
      " ">>
FailedToAnalyzeBatch ==
    <<"F","a","i","l","e","d"," ","t","o"," ","a","n","a","l","y","z","e",
      " ","b","a","t","c","h"," ">>
ErrorInBatch ==
    <<"A","n"," ","e","r","r","o","r"," ","o","c","c","u","r","r","e","d",
      " ","i","n"," ","b","a","t","c","h"," ">>
PleaseSelect ==
    <<"P","l","e","a","s","e"," ","s","e","l","e","c","t"," ","i","m","a",
      "g","e","s"," ","t","o"," ","u","p","l","o","a","d",".">>
Dot == <<".">>

LowerLetters ==
    <<"a","b","c","d","e","f","g","h","i","j","k","l","m",
      "n","o","p","q","r","s","t","u","v","w","x","y","z">>
UpperLetters ==
    <<"A","B","C","D","E","F","G","H","I","J","K","L","M",
      "N","O","P","Q","R","S","T","U","V","W","X","Y","Z">>

\* String.prototype.toUpperCase on one character
ToUpperCase(c) ==
    IF \E k \in DOMAIN LowerLetters : LowerLetters[k] = c
    THEN UpperLetters[CHOOSE k \in DOMAIN LowerLetters : LowerLetters[k] = c]
    ELSE c

\* String.prototype.toLowerCase on one character
ToLowerCase(c) ==
    IF \E k \in DOMAIN UpperLetters : UpperLetters[k] = c
    THEN LowerLetters[CHOOSE k \in DOMAIN UpperLetters : UpperLetters[k] = c]
    ELSE c

Digits == <<"0","1","2","3","4","5","6","7","8","9">>

RECURSIVE NatText(_)
\* decimal rendering of a natural number (template literal, toFixed)
NatText(n) ==
    IF n < 10 THEN <<Digits[n + 1]>>
    ELSE NatText(n \div 10) \o <<Digits[(n % 10) + 1]>>

RECURSIVE SplitFrom(_, _, _, _)
SplitFrom(s, k, cur, acc) ==
    IF k > Len(s) THEN Append(acc, cur)
    ELSE IF s[k] = " " THEN SplitFrom(s, k + 1, << >>, Append(acc, cur))
    ELSE SplitFrom(s, k + 1, Append(cur, s[k]), acc)

\* s.split(' ')
Split(s) == SplitFrom(s, 1, << >>, << >>)

RECURSIVE Join(_)
\* parts.join(' ')
Join(parts) ==
    IF Len(parts) = 0 THEN << >>
    ELSE IF Len(parts) = 1 THEN parts[1]
    ELSE parts[1] \o <<" ">> \o Join(Tail(parts))

\* p.charAt(0).toUpperCase() + p.slice(1)
Capitalize(p) ==
    IF Len(p) = 0 THEN << >> ELSE <<ToUpperCase(p[1])>> \o Tail(p)

\* Number.prototype.toFixed(2) of a score given in thousandths
ToFixed2(score) ==
    LET h == (score + 5) \div 10
    IN  NatText(h \div 100) \o Dot \o <<Digits[((h \div 10) % 10) + 1]>>
            \o <<Digits[(h % 10) + 1]>>

----------------------------------------------------------------------------
\* Files and selections

BATCH_SIZE == 20

HEIC == <<"H","E","I","C">>
heif == <<"h","e","i","f">>
jpg == <<"j","p","g">>
png == <<"p","n","g">>

\* extension of the k-th file of a selection
ExtAt(k) ==
    IF k % 5 = 1 THEN HEIC
    ELSE IF k % 5 = 3 THEN heif
    ELSE IF k % 5 = 0 THEN png
    ELSE jpg

\* what the k-th file of a selection holds: a photo of an item, a photo
\* nothing is recognised in, or bytes the transcoder cannot read
ContentAt(k) ==
    IF k % 10 = 3 THEN "corrupt"
    ELSE IF k % 10 = 7 THEN "blank"
    ELSE "item"

\* a file named <id>.<ext>; ext is the part of the name after its last dot
MkFile(k) == [id |-> k, ext |-> ExtAt(k), content |-> ContentAt(k)]

Selection(n) == [k \in 1..n |-> MkFile(k)]

SelectionSizes == {0, 1, BATCH_SIZE, (MaxBatches - 1) * BATCH_SIZE + 1}

\* String.prototype.toLowerCase
LowerText(t) == [k \in 1..Len(t) |-> ToLowerCase(t[k])]

\* IsHeic without toLowerCase: the ending is compared as written
IsHeicCaseSensitive(file) ==
    file.ext = <<"h","e","i","c">> \/ file.ext = <<"h","e","i","f">>

\* file.name.toLowerCase().endsWith('.heic') || ...endsWith('.heif')
IsHeic(file) ==
    LowerText(file.ext) = <<"h","e","i","c">> \/ LowerText(file.ext) = <<"h","e","i","f">>

Min(a, b) == IF a < b THEN a ELSE b

\* Slice with an end index one too far: slice(i, i + BATCH_SIZE + 1)
SliceThrough(files, from) ==
    SubSeq(files, from + 1, Min(from + BATCH_SIZE + 1, Len(files)))

\* filesToProcess.slice(i, i + BATCH_SIZE), i counted from 0
Slice(files, from) == SubSeq(files, from + 1, Min(from + BATCH_SIZE, Len(files)))

\* i / BATCH_SIZE + 1
BatchNumber(from) == (from \div BATCH_SIZE) + 1

NumBatches(files) == (Len(files) + BATCH_SIZE - 1) \div BATCH_SIZE

----------------------------------------------------------------------------
\* Backends: what each external call can come back with

\* --- recognition (Vision REST) ---
LabelText == <<"a", "c", " ", "b">>
EntityText == <<"e">>
SimilarUrl == <<"u">>

\* the reply of the tests: a best-guess label, a scored entity, a similar image
NominalReply ==
    [hasWeb |-> TRUE,
     bestGuessLabels |-> <<[label |-> LabelText]>>,
     webEntities |-> <<[description |-> EntityText, hasScore |-> TRUE, score |-> 946]>>,
     visuallySimilarImages |-> <<[url |-> SimilarUrl]>>]

\* webDetection: {} (no label, no entity, no similar image)
EmptyReply ==
    [hasWeb |-> TRUE, bestGuessLabels |-> << >>, webEntities |-> << >>,
     visuallySimilarImages |-> << >>]

\* no best-guess label, one entity without a score
EntityReply ==
    [hasWeb |-> TRUE, bestGuessLabels |-> << >>,
     webEntities |-> <<[description |-> EntityText, hasScore |-> FALSE, score |-> 0]>>,
     visuallySimilarImages |-> << >>]

DegradedReplies == {EmptyReply, EntityReply}

FetchFailed == <<"f", "e", "t", "c", "h"," ", "f", "a", "i", "l", "e", "d">>
ApiMessage == <<"q", "u", "o", "t", "a">>
StatusText == <<"F", "o", "r", "b", "i", "d", "d", "e", "n">>

\* a recognition failure: fetch rejects, or the service answers non-OK
VisionFailures ==
    { [kind |-> "network", message |-> FetchFailed, statusText |-> NULL],
      [kind |-> "http", message |-> ApiMessage, statusText |-> StatusText],
      [kind |-> "http", message |-> NULL, statusText |-> StatusText] }

\* --- pricing (SerpApi getJson) ---
PriceText == <<"$", "5">>
RangeText == <<"$", "3", "-", "4">>
LinkText == <<"l">>

Listing(hasTypical, range, price, link) ==
    [hasTypical |-> hasTypical, typical_price_range |-> range, price |-> price,
     link |-> link]

Json(isNull, hasResults, list) ==
    [isNull |-> isNull, hasResults |-> hasResults, shopping_results |-> list]

NominalJson == Json(FALSE, TRUE, <<Listing(FALSE, << >>, PriceText, LinkText)>>)

DegradedJsons ==
    { Json(TRUE, FALSE, << >>),
      Json(FALSE, FALSE, << >>),
      Json(FALSE, TRUE, << >>),
      Json(FALSE, TRUE, <<Listing(TRUE, <<RangeText>>, PriceText, NULL),
                          Listing(FALSE, << >>, PriceText, LinkText)>>),
      Json(FALSE, TRUE, <<Listing(FALSE, << >>, NULL, LinkText)>>) }

SerpFailed == <<"s", "e", "r", "p">>

\* --- condition (Gemini) ---
ConditionText == <<"N", "e", "w">>
GeminiFailed == <<"g", "e", "m">>

\* --- transcoder (heic-convert) ---
ConvertFailed == <<"b", "a", "d">>

----------------------------------------------------------------------------
\* Promises awaited by Promise.all

Pending == [state |-> "pending", value |-> NULL, price |-> NULL, link |-> NULL]
Resolved(v) == [state |-> "resolved", value |-> v, price |-> NULL, link |-> NULL]
ResolvedPrice(p, l) == [state |-> "resolved", value |-> NULL, price |-> p, link |-> l]
Rejected(msg) == [state |-> "rejected", value |-> msg, price |-> NULL, link |-> NULL]
\* the backend call has ended and nothing will ever settle the promise
Stuck == [state |-> "stuck", value |-> NULL, price |-> NULL, link |-> NULL]
NoPromise == [state |-> "none", value |-> NULL, price |-> NULL, link |-> NULL]

----------------------------------------------------------------------------
\* route.ts: pure parts

\* PriceCallback that takes the listing's single price when it has one and
\* the typical price range only otherwise
PriceCallbackPrefersPrice(json) ==
    IF json.isNull \/ ~json.hasResults \/ Len(json.shopping_results) = 0
    THEN ResolvedPrice(NA, Hash)
    ELSE LET firstResult == json.shopping_results[1]
             price == IF Truthy(firstResult.price) THEN firstResult.price
                      ELSE IF firstResult.hasTypical
                                /\ Len(firstResult.typical_price_range) > 0
                      THEN firstResult.typical_price_range[1]
                      ELSE NA
             link == OrElse(firstResult.link, Hash)
         IN  ResolvedPrice(price, link)

\* the getJson callback of getPricingFromSerpApi
PriceCallback(json) ==
    IF json.isNull \/ ~json.hasResults \/ Len(json.shopping_results) = 0
    THEN ResolvedPrice(NA, Hash)
    ELSE LET firstResult == json.shopping_results[1]
             price == IF firstResult.hasTypical
                      THEN IF Len(firstResult.typical_price_range) > 0
                           THEN firstResult.typical_price_range[1]
                           ELSE NULL
                      ELSE OrElse(firstResult.price, NA)
             link == OrElse(firstResult.link, Hash)
         IN  ResolvedPrice(price, link)

\* PriceShortCircuit without the guard of getPricingFromSerpApi: every query
\* goes to the backend
PriceShortCircuitNever(query) == FALSE

\* the guard of getPricingFromSerpApi: no backend call for an empty or N/A query
PriceShortCircuit(query) == ~Truthy(query) \/ query = NA

\* the catch of getConditionFromAI
ConditionCatch == Resolved(AiAnalysisFailed)

\* the message thrown by analyzeImageWithVisionRest
VisionError(failure) ==
    IF failure.kind = "network" THEN failure.message
    ELSE VisionApiError \o OrElse(failure.message, failure.statusText)

\* Description without the fallback to the first entity
DescriptionLabelOnly(result) ==
    LET webDetection == result
        first == IF webDetection.hasWeb /\ Len(webDetection.bestGuessLabels) > 0
                 THEN webDetection.bestGuessLabels[1].label
                 ELSE NULL
    IN  OrElse(first, UnknownItem)

\* bestGuessLabel || 'Unknown Item'
Description(result) ==
    LET webDetection == result
        first == IF webDetection.hasWeb /\ Len(webDetection.bestGuessLabels) > 0
                 THEN webDetection.bestGuessLabels[1].label
                 ELSE NULL
        bestGuessLabel ==
            IF ~Truthy(first) /\ webDetection.hasWeb
                 /\ Len(webDetection.webEntities) > 0
            THEN webDetection.webEntities[1].description
            ELSE first
    IN  OrElse(bestGuessLabel, UnknownItem)

Brand(description) ==
    LET parts == Split(description)
    IN  IF Len(parts) > 0 THEN Capitalize(parts[1]) ELSE NA

Model(description) ==
    LET parts == Split(description)
    IN  IF Len(parts) > 1 THEN Join(Tail(parts)) ELSE description

\* Confidence without the || '0.00' default: an absent score stays undefined
ConfidenceNoDefault(result) ==
    IF result.hasWeb /\ Len(result.webEntities) > 0 /\ result.webEntities[1].hasScore
    THEN ToFixed2(result.webEntities[1].score)
    ELSE NULL

\* webDetection?.webEntities?.[0]?.score?.toFixed(2) || '0.00'
Confidence(result) ==
    IF result.hasWeb /\ Len(result.webEntities) > 0 /\ result.webEntities[1].hasScore
    THEN OrElse(ToFixed2(result.webEntities[1].score), ZeroConfidence)
    ELSE ZeroConfidence

\* webDetection?.visuallySimilarImages?.[0]?.url || 'N/A'
Pictures(result) ==
    IF result.hasWeb /\ Len(result.visuallySimilarImages) > 0
    THEN OrElse(result.visuallySimilarImages[1].url, NA)
    ELSE NA

\* the row pushed for a recognised image
ResultRow(file, result, condition, priceData) ==
    [fileName |-> file,
     brand |-> Brand(Description(result)),
     model |-> Model(Description(result)),
     description |-> Description(result),
     condition |-> condition,
     currentRetailPrice |-> priceData.price,
     webLink |-> priceData.link,
     correspondingItemPictures |-> Pictures(result),
     confidence |-> Confidence(result)]

\* the row pushed when the transcoder fails
ConversionErrorRow(file, message) ==
    [fileName |-> file,
     brand |-> ConversionErrorBrand,
     model |-> NA,
     description |-> message,
     condition |-> NA,
     currentRetailPrice |-> NA,
     webLink |-> NA,
     correspondingItemPictures |-> NA,
     confidence |-> ZeroConfidence]

\* NextResponse.json(...) as the page sees it
Response(id, code, rows, hasRows, err) ==
    [id |-> id, status |-> code, ok |-> (code >= 200 /\ code < 300),
     hasResults |-> hasRows, results |-> rows, error |-> err]

SuccessResponse(id, rows) == Response(id, 200, rows, TRUE, NULL)

\* 400: no images uploaded
EmptyResponse(id) == Response(id, 400, << >>, FALSE, NoImagesUploaded)

\* CatchResponse of a catch that swallows the error and answers with the
\* rows collected so far
CatchResponsePartial(id, message) == Response(id, 200, finalResults, TRUE, NULL)

\* the catch of POST
CatchResponse(id, message) ==
    Response(id, 500, << >>, FALSE, FailedToProcess \o OrElse(message, UnknownError))

NoResponse == Response(0, 0, << >>, FALSE, NULL)

----------------------------------------------------------------------------
\* The visual-match variant of the normaliser, as the specification describes
\* it (sections 4.2 and 4.5): one row per match of an image, matches with a
\* title already seen for the image dropped

NotFound == <<"N","o","t"," ","F","o","u","n","d">>
Protocol == <<":","/","/">>
Www == <<"w","w","w",".">>

MadewellCom == <<"m","a","d","e","w","e","l","l",".","c","o","m">>
HermesCom == <<"h","e","r","m","e","s",".","c","o","m">>
HttpsWwwMadewellComShop ==
    <<"h","t","t","p","s",":","/","/","w","w","w",".","m","a","d","e","w",
      "e","l","l",".","c","o","m","/","s","h","o","p">>
WwwHermesCom == <<"w","w","w",".","h","e","r","m","e","s",".","c","o","m">>
MadewellThePouchWallet ==
    <<"M","a","d","e","w","e","l","l"," ","T","h","e"," ","P","o","u","c",
      "h"," ","W","a","l","l","e","t">>
ThePouchWallet == <<"T","h","e"," ","P","o","u","c","h"," ","W","a","l","l","e","t">>
hermesHat == <<"h","e","r","m","e","s"," ","h","a","t">>
Madewell == <<"M","a","d","e","w","e","l","l">>
Hermes == <<"H","e","r","m","e","s">>

\* t without its first n characters
Drop(t, n) == SubSeq(t, n + 1, Len(t))

StartsWith(t, prefix) ==
    Len(prefix) <= Len(t) /\ SubSeq(t, 1, Len(prefix)) = prefix

\* position of the first occurrence of x in t, 0 if there is none
IndexOf(t, x) ==
    IF \E k \in 1..Len(t) : StartsWith(Drop(t, k - 1), x)
    THEN CHOOSE k \in 1..Len(t) :
            /\ StartsWith(Drop(t, k - 1), x)
            /\ \A m \in 1..(k - 1) : ~StartsWith(Drop(t, m - 1), x)
    ELSE 0

\* t up to, not including, the first occurrence of x; all of t if none
Before(t, x) == IF IndexOf(t, x) = 0 THEN t ELSE SubSeq(t, 1, IndexOf(t, x) - 1)

RECURSIVE TrimStart(_)
TrimStart(t) == IF Len(t) > 0 /\ Head(t) = " " THEN TrimStart(Tail(t)) ELSE t

\* VisualBrand for a normaliser that leaves a leading www. in place
VisualBrandKeepsWww(source) ==
    LET noProtocol == IF IndexOf(source, Protocol) = 0 THEN source
                      ELSE Drop(source, IndexOf(source, Protocol) + Len(Protocol) - 1)
        segment == Before(noProtocol, <<"/">>)
    IN  Capitalize(Before(segment, Dot))

\* brand of a match: the source without protocol and leading www., its first
\* path segment, up to the first dot, first character upper-cased
VisualBrand(source) ==
    LET noProtocol == IF IndexOf(source, Protocol) = 0 THEN source
                      ELSE Drop(source, IndexOf(source, Protocol) + Len(Protocol) - 1)
        noWww == IF StartsWith(noProtocol, Www) THEN Drop(noProtocol, Len(Www))
                 ELSE noProtocol
        segment == Before(noWww, <<"/">>)
    IN  Capitalize(Before(segment, Dot))

\* model of a match: the title without the brand it starts with
\* (case-insensitively), else the full title
VisualModel(title, brand) ==
    IF StartsWith(LowerText(title), LowerText(brand))
    THEN TrimStart(Drop(title, Len(brand)))
    ELSE title

RECURSIVE DedupCaseSensitiveFrom(_, _, _)
DedupCaseSensitiveFrom(matches, seen, kept) ==
    IF Len(matches) = 0 THEN kept
    ELSE LET key == Head(matches).title
         IN  IF key \in seen THEN DedupCaseSensitiveFrom(Tail(matches), seen, kept)
             ELSE DedupCaseSensitiveFrom(Tail(matches), seen \cup {key},
                      Append(kept, Head(matches)))

\* Dedup that compares titles as written
DedupCaseSensitive(matches) == DedupCaseSensitiveFrom(matches, {}, << >>)

RECURSIVE DedupFrom(_, _, _)
DedupFrom(matches, seen, kept) ==
    IF Len(matches) = 0 THEN kept
    ELSE LET key == LowerText(Head(matches).title)
         IN  IF key \in seen THEN DedupFrom(Tail(matches), seen, kept)
             ELSE DedupFrom(Tail(matches), seen \cup {key}, Append(kept, Head(matches)))

\* the matches of one image without those whose title, compared
\* case-insensitively, was seen before: first seen wins, order kept
Dedup(matches) == DedupFrom(matches, {}, << >>)

\* the row of one match; the image's condition is copied to each row
VisualRow(name, match, condition) ==
    [fileName |-> name,
     brand |-> VisualBrand(match.source),
     model |-> VisualModel(match.title, VisualBrand(match.source)),
     description |-> match.title,
     condition |-> condition,
     currentRetailPrice |-> OrElse(match.price, NA),
     webLink |-> OrElse(match.link, Hash),
     correspondingItemPictures |-> OrElse(match.thumbnail, NA),
     confidence |-> ZeroConfidence]

\* the record of an image without any match
NotFoundRow(name, condition) ==
    [fileName |-> name, brand |-> NotFound, model |-> NA, description |-> NA,
     condition |-> condition, currentRetailPrice |-> NA, webLink |-> Hash,
     correspondingItemPictures |-> NA, confidence |-> ZeroConfidence]

\* the rows of one image
VisualRows(name, matches, condition) ==
    IF Len(matches) = 0 THEN <<NotFoundRow(name, condition)>>
    ELSE [k \in 1..Len(Dedup(matches)) |-> VisualRow(name, Dedup(matches)[k], condition)]

----------------------------------------------------------------------------
\* Initial state: the page just rendered, the route idle

Zero == [num |-> 0, den |-> 1]

NoPromises == [cond |-> NoPromise, price |-> NoPromise]

NoCall == [img |-> 0, call |-> "none"]

\* nothing was exported yet
NoDownload == [made |-> FALSE, during |-> "Idle", text |-> << >>]

\* no function is applied on its own
NoArg == [fn |-> "none"]

Init ==
    /\ selectedFiles = << >>
    /\ loading = FALSE
    /\ progress = Zero
    /\ results = << >>
    /\ error = NULL
    /\ cpc = "idle"
    /\ i = 0
    /\ allResults = << >>
    /\ filesToProcess = << >>
    /\ requests = {}
    /\ responses = {}
    /\ spc = "idle"
    /\ sreq = 0
    /\ sfiles = << >>
    /\ sidx = 0
    /\ finalResults = << >>
    /\ vision = EmptyReply
    /\ pend = NoPromises
    /\ status = "Idle"
    /\ sent = << >>
    /\ received = << >>
    /\ log = << >>
    /\ lastResponse = NoResponse
    /\ fatal = NoCall
    /\ touched = FALSE
    /\ download = NoDownload
    /\ alerted = NULL
    /\ arg = NoArg
    /\ ret = NoArg

----------------------------------------------------------------------------
\* page: Home

\* the file input's onChange
handleFileChange(n) ==
    /\ selectedFiles' = Selection(n)
    /\ results' = << >>
    /\ error' = NULL
    /\ touched' = TRUE
    /\ UNCHANGED <<loading, progress, hvars, requests, responses, svars,
                   status, sent, received, pvars, evars>>

\* fetch('/api/analyze', {method: 'POST', body: batchFormData}) for the batch
\* starting at index from
Fetch(files, from) == [id |-> BatchNumber(from), files |-> Slice(files, from)]

\* handleSubmitEmpty of a handler that resets the run state before it looks
\* at the selection
handleSubmitEmptyResets ==
    /\ ~loading
    /\ Len(selectedFiles) = 0
    /\ error' = PleaseSelect
    /\ results' = << >>
    /\ progress' = Zero
    /\ UNCHANGED <<selectedFiles, loading, hvars, requests,
                   responses, svars, gvars, pvars, evars>>

\* handleSubmit with nothing selected
handleSubmitEmpty ==
    /\ ~loading
    /\ Len(selectedFiles) = 0
    /\ error' = PleaseSelect
    /\ UNCHANGED <<selectedFiles, loading, progress, results, hvars, requests,
                   responses, svars, gvars, pvars, evars>>

\* handleSubmit that requests every batch at once instead of awaiting each
handleSubmitAllAtOnce ==
    /\ ~loading
    /\ Len(selectedFiles) > 0
    /\ loading' = TRUE
    /\ results' = << >>
    /\ error' = NULL
    /\ progress' = Zero
    /\ allResults' = << >>
    /\ filesToProcess' = selectedFiles
    /\ i' = 0
    /\ requests' = requests \cup
            {Fetch(selectedFiles, b * BATCH_SIZE) : b \in 0..(NumBatches(selectedFiles) - 1)}
    /\ cpc' = "await"
    /\ status' = "Running"
    /\ sent' = [j \in 1..NumBatches(selectedFiles) |-> j]
    /\ received' = << >>
    /\ touched' = FALSE
    /\ log' = << >>
    /\ lastResponse' = NoResponse
    /\ fatal' = NoCall
    /\ download' = NoDownload
    /\ alerted' = NULL
    /\ UNCHANGED <<selectedFiles, responses, svars, fvars>>

\* handleSubmit without setResults([]): the rows shown stay until the first
\* batch of the new run comes back
handleSubmitKeepsRows ==
    /\ ~loading
    /\ Len(selectedFiles) > 0
    /\ loading' = TRUE
    /\ results' = results
    /\ error' = NULL
    /\ progress' = Zero
    /\ allResults' = << >>
    /\ filesToProcess' = selectedFiles
    /\ i' = 0
    /\ requests' = requests \cup {Fetch(selectedFiles, 0)}
    /\ cpc' = "await"
    /\ status' = "Running"
    /\ sent' = <<1>>
    /\ received' = << >>
    /\ touched' = FALSE
    /\ log' = << >>
    /\ lastResponse' = NoResponse
    /\ fatal' = NoCall
    /\ download' = NoDownload
    /\ alerted' = NULL
    /\ UNCHANGED <<selectedFiles, responses, svars, fvars>>

\* handleSubmit reachable while loading: a submit button that is not
\* disabled
handleSubmitWhileLoading ==
    /\ Len(selectedFiles) > 0
    /\ loading' = TRUE
    /\ results' = << >>
    /\ error' = NULL
    /\ progress' = Zero
    /\ allResults' = << >>
    /\ filesToProcess' = selectedFiles
    /\ i' = 0
    /\ requests' = requests \cup {Fetch(selectedFiles, 0)}
    /\ cpc' = "await"
    /\ status' = "Running"
    /\ sent' = <<1>>
    /\ received' = << >>
    /\ touched' = FALSE
    /\ log' = << >>
    /\ lastResponse' = NoResponse
    /\ fatal' = NoCall
    /\ download' = NoDownload
    /\ alerted' = NULL
    /\ UNCHANGED <<selectedFiles, responses, svars, fvars>>

\* handleSubmit up to its first await: reset, then request the first batch.
\* The submit button is disabled while loading.
handleSubmit ==
    /\ ~loading
    /\ Len(selectedFiles) > 0
    /\ loading' = TRUE
    /\ results' = << >>
    /\ error' = NULL
    /\ progress' = Zero
    /\ allResults' = << >>
    /\ filesToProcess' = selectedFiles
    /\ i' = 0
    /\ requests' = requests \cup {Fetch(selectedFiles, 0)}
    /\ cpc' = "await"
    /\ status' = "Running"
    /\ sent' = <<1>>
    /\ received' = << >>
    /\ touched' = FALSE
    /\ log' = << >>
    /\ lastResponse' = NoResponse
    /\ fatal' = NoCall
    /\ download' = NoDownload
    /\ alerted' = NULL
    /\ UNCHANGED <<selectedFiles, responses, svars, fvars>>

\* BatchCatch with a catch block that also clears the rows shown
BatchCatchClears(message, reqs) ==
    /\ requests' = reqs
    /\ error' = OrElse(message, ErrorInBatch \o NatText(BatchNumber(i)) \o Dot)
    /\ loading' = FALSE
    /\ cpc' = "idle"
    /\ status' = "Failed"
    /\ received' = Append(received, [k |-> BatchNumber(i), ok |-> FALSE, rows |-> << >>])
    /\ results' = << >>
    /\ UNCHANGED <<selectedFiles, progress, i, allResults, filesToProcess,
                   sent, touched>>

\* BatchCatch with a catch block that does not return: the loop goes on
BatchCatchNoReturn(message, reqs) ==
    LET next == i + BATCH_SIZE
    IN  /\ error' = OrElse(message, ErrorInBatch \o NatText(BatchNumber(i)) \o Dot)
        /\ loading' = FALSE
        /\ received' = Append(received, [k |-> BatchNumber(i), ok |-> FALSE, rows |-> << >>])
        /\ i' = next
        /\ IF next < Len(filesToProcess)
           THEN /\ requests' = reqs \cup {Fetch(filesToProcess, next)}
                /\ sent' = Append(sent, BatchNumber(next))
                /\ cpc' = "await"
                /\ status' = "Failed"
           ELSE /\ requests' = reqs
                /\ cpc' = "idle"
                /\ status' = "Succeeded"
                /\ UNCHANGED sent
        /\ UNCHANGED <<selectedFiles, progress, results, allResults, filesToProcess,
                       touched>>

\* BatchCatch with a catch block that reports its own text whatever the
\* failure said
BatchCatchOwnText(message, reqs) ==
    /\ requests' = reqs
    /\ error' = ErrorInBatch \o NatText(BatchNumber(i)) \o Dot
    /\ loading' = FALSE
    /\ cpc' = "idle"
    /\ status' = "Failed"
    /\ received' = Append(received, [k |-> BatchNumber(i), ok |-> FALSE, rows |-> << >>])
    /\ UNCHANGED <<selectedFiles, progress, results, i, allResults, filesToProcess,
                   sent, touched>>

\* the catch block of the batch loop: report, stop loading, return
BatchCatch(message, reqs) ==
    /\ requests' = reqs
    /\ error' = OrElse(message, ErrorInBatch \o NatText(BatchNumber(i)) \o Dot)
    /\ loading' = FALSE
    /\ cpc' = "idle"
    /\ status' = "Failed"
    /\ received' = Append(received, [k |-> BatchNumber(i), ok |-> FALSE, rows |-> << >>])
    /\ UNCHANGED <<selectedFiles, progress, results, i, allResults, filesToProcess,
                   sent, touched>>

\* BatchDone with a loop that ends one batch early
BatchDoneStopsEarly(r) ==
    LET all == allResults \o r.results
        batch == Slice(filesToProcess, i)
        next == i + BATCH_SIZE
    IN  /\ allResults' = all
        /\ results' = all
        /\ progress' = [num |-> (i + Len(batch)) * 100, den |-> Len(filesToProcess)]
        /\ i' = next
        /\ received' = Append(received, [k |-> BatchNumber(i), ok |-> TRUE, rows |-> r.results])
        /\ IF next + BATCH_SIZE < Len(filesToProcess)
           THEN /\ requests' = requests \cup {Fetch(filesToProcess, next)}
                /\ sent' = Append(sent, BatchNumber(next))
                /\ UNCHANGED <<loading, cpc, status>>
           ELSE /\ loading' = FALSE
                /\ cpc' = "idle"
                /\ status' = "Succeeded"
                /\ UNCHANGED <<requests, sent>>
        /\ UNCHANGED <<selectedFiles, error, filesToProcess, touched>>

\* BatchDone that reports the share of the batch just finished instead of
\* the share of all files processed so far
BatchDoneBatchShare(r) ==
    LET all == allResults \o r.results
        batch == Slice(filesToProcess, i)
        next == i + BATCH_SIZE
    IN  /\ allResults' = all
        /\ results' = all
        /\ progress' = [num |-> Len(batch) * 100, den |-> Len(filesToProcess)]
        /\ i' = next
        /\ received' = Append(received, [k |-> BatchNumber(i), ok |-> TRUE, rows |-> r.results])
        /\ IF next < Len(filesToProcess)
           THEN /\ requests' = requests \cup {Fetch(filesToProcess, next)}
                /\ sent' = Append(sent, BatchNumber(next))
                /\ UNCHANGED <<loading, cpc, status>>
           ELSE /\ loading' = FALSE
                /\ cpc' = "idle"
                /\ status' = "Succeeded"
                /\ UNCHANGED <<requests, sent>>
        /\ UNCHANGED <<selectedFiles, error, filesToProcess, touched>>

\* BatchDone that counts the files before the batch just finished, not the
\* batch itself
BatchDoneCountsBefore(r) ==
    LET all == allResults \o r.results
        next == i + BATCH_SIZE
    IN  /\ allResults' = all
        /\ results' = all
        /\ progress' = [num |-> i * 100, den |-> Len(filesToProcess)]
        /\ i' = next
        /\ received' = Append(received, [k |-> BatchNumber(i), ok |-> TRUE, rows |-> r.results])
        /\ IF next < Len(filesToProcess)
           THEN /\ requests' = requests \cup {Fetch(filesToProcess, next)}
                /\ sent' = Append(sent, BatchNumber(next))
                /\ UNCHANGED <<loading, cpc, status>>
           ELSE /\ loading' = FALSE
                /\ cpc' = "idle"
                /\ status' = "Succeeded"
                /\ UNCHANGED <<requests, sent>>
        /\ UNCHANGED <<selectedFiles, error, filesToProcess, touched>>

\* the rest of the loop body after a good response, then the next iteration
\* or the end of handleSubmit
BatchDone(r) ==
    LET all == allResults \o r.results
        batch == Slice(filesToProcess, i)
        next == i + BATCH_SIZE
    IN  /\ allResults' = all
        /\ results' = all
        /\ progress' = [num |-> (i + Len(batch)) * 100, den |-> Len(filesToProcess)]
        /\ i' = next
        /\ received' = Append(received, [k |-> BatchNumber(i), ok |-> TRUE, rows |-> r.results])
        /\ IF next < Len(filesToProcess)
           THEN /\ requests' = requests \cup {Fetch(filesToProcess, next)}
                /\ sent' = Append(sent, BatchNumber(next))
                /\ UNCHANGED <<loading, cpc, status>>
           ELSE /\ loading' = FALSE
                /\ cpc' = "idle"
                /\ status' = "Succeeded"
                /\ UNCHANGED <<requests, sent>>
        /\ UNCHANGED <<selectedFiles, error, filesToProcess, touched>>

\* handleSubmit resumes with the response of the batch it awaits
ReceiveResponse ==
    /\ cpc = "await"
    /\ \E r \in responses :
        /\ r.id = BatchNumber(i)
        /\ responses' = responses \ {r}
        /\ IF ~r.ok
           THEN BatchCatch(OrElse(r.error,
                        FailedToAnalyzeBatch \o NatText(BatchNumber(i)) \o Dot),
                    requests)
           ELSE BatchDone(r)
    /\ UNCHANGED <<svars, pvars, evars>>

\* fetch rejects: the request never reaches the route
FetchFails ==
    /\ cpc = "await"
    /\ \E r \in requests :
        /\ r.id = BatchNumber(i)
        /\ \E message \in {FetchFailed, EmptyText} :
            BatchCatch(message, requests \ {r})
    /\ UNCHANGED <<responses, svars, pvars, evars>>

----------------------------------------------------------------------------
\* page: the tabular export (csv-stringify with header: true and columns)

NoResultsToExport ==
    <<"N","o"," ","r","e","s","u","l","t","s"," ","t","o"," ","e","x","p",
      "o","r","t",".">>

Comma == <<",">>
Quote == <<"\"">>
Newline == <<"\n">>

\* the columns option: key and header of each column, in order
Columns ==
    << [key |-> "fileName", header |-> <<"F","i","l","e"," ","N","a","m","e">>],
       [key |-> "brand", header |-> <<"B","r","a","n","d">>],
       [key |-> "model", header |-> <<"M","o","d","e","l">>],
       [key |-> "description",
        header |-> <<"D","e","s","c","r","i","p","t","i","o","n">>],
       [key |-> "condition", header |-> <<"C","o","n","d","i","t","i","o","n">>],
       [key |-> "currentRetailPrice",
        header |-> <<"C","u","r","r","e","n","t"," ","R","e","t","a","i","l",
                     " ","P","r","i","c","e">>],
       [key |-> "webLink", header |-> <<"W","e","b"," ","L","i","n","k">>],
       [key |-> "correspondingItemPictures",
        header |-> <<"C","o","r","r","e","s","p","o","n","d","i","n","g"," ",
                     "I","t","e","m"," ","P","i","c","t","u","r","e","s">>],
       [key |-> "confidence",
        header |-> <<"C","o","n","f","i","d","e","n","c","e"," ","(","S","i",
                     "m","i","l","a","r","i","t","y",")">>] >>

\* file.name of a file of a selection
NameOf(file) == NatText(file.id) \o Dot \o file.ext

\* a row as the response body carries it: fileName is the file's name
Exportable(rows) ==
    [k \in 1..Len(rows) |-> [rows[k] EXCEPT !.fileName = NameOf(rows[k].fileName)]]

RECURSIVE DoubleQuotes(_)
\* every quote of the value escaped by a second quote
DoubleQuotes(value) ==
    IF Len(value) = 0 THEN << >>
    ELSE (IF Head(value) = "\"" THEN <<"\"", "\"">> ELSE <<Head(value)>>)
             \o DoubleQuotes(Tail(value))

\* CsvField that quotes a value without escaping the quotes inside it
CsvFieldNoEscape(v) ==
    LET value == IF v = NULL THEN << >> ELSE v
        shouldQuote == \E k \in 1..Len(value) : value[k] \in {",", "\"", "\n"}
    IN  IF shouldQuote THEN Quote \o value \o Quote ELSE value

\* one field: undefined and null are written as nothing; a value holding the
\* delimiter, a quote or the record delimiter is quoted
CsvField(v) ==
    LET value == IF v = NULL THEN << >> ELSE v
        shouldQuote == \E k \in 1..Len(value) : value[k] \in {",", "\"", "\n"}
    IN  IF shouldQuote THEN Quote \o DoubleQuotes(value) \o Quote ELSE value

RECURSIVE CsvFields(_)
CsvFields(fields) ==
    IF Len(fields) = 0 THEN << >>
    ELSE IF Len(fields) = 1 THEN CsvField(fields[1])
    ELSE CsvField(fields[1]) \o Comma \o CsvFields(Tail(fields))

\* one record: its fields separated by the delimiter, then the record delimiter
CsvRecord(fields) == CsvFields(fields) \o Newline

RECURSIVE CsvRecords(_)
CsvRecords(rows) ==
    IF Len(rows) = 0 THEN << >>
    ELSE CsvRecord([c \in 1..Len(Columns) |-> rows[1][Columns[c].key]])
             \o CsvRecords(Tail(rows))

\* stringify(results, { header: true, columns: columns })
Stringify(rows) ==
    CsvRecord([c \in 1..Len(Columns) |-> Columns[c].header]) \o CsvRecords(rows)

\* handleExportCsv with no results: alert, no file
handleExportCsvEmpty ==
    /\ Len(results) = 0
    /\ alerted' = NoResultsToExport
    /\ UNCHANGED <<cvars, hvars, requests, responses, svars, gvars, pvars,
                   download, fvars>>

\* handleExportCsv: the rows shown are serialised and downloaded. The
\* export button is rendered whenever there are results.
handleExportCsv ==
    /\ Len(results) > 0
    /\ download' = [made |-> TRUE, during |-> status,
                    text |-> Stringify(Exportable(results))]
    /\ UNCHANGED <<cvars, hvars, requests, responses, svars, gvars, pvars,
                   alerted, fvars>>

----------------------------------------------------------------------------
\* route: POST

Call(k, what) == [img |-> k, call |-> what]

\* return NextResponse.json(...): the invocation and its locals end
Respond(r) ==
    /\ responses' = responses \cup {r}
    /\ lastResponse' = r
    /\ spc' = "idle"
    /\ sfiles' = << >>
    /\ sidx' = 0
    /\ finalResults' = << >>
    /\ vision' = EmptyReply
    /\ pend' = NoPromises

\* the catch of POST after the call c failed with message
Catch(c, message) ==
    /\ Respond(CatchResponse(sreq, message))
    /\ fatal' = c

\* NextImage of a loop that starts the first call of the following image
\* together with that of image k
NextImageAhead(id, files, k, fr, lg) ==
    /\ log' = IF k > Len(files) THEN lg
              ELSE IF k + 1 > Len(files)
              THEN Append(lg, Call(k, IF IsHeic(files[k]) THEN "convert" ELSE "recognize"))
              ELSE Append(Append(lg, Call(k, IF IsHeic(files[k]) THEN "convert" ELSE "recognize")),
                          Call(k + 1, IF IsHeic(files[k + 1]) THEN "convert" ELSE "recognize"))
    /\ IF k > Len(files)
       THEN Respond(SuccessResponse(id, fr))
       ELSE /\ spc' = IF IsHeic(files[k]) THEN "convert" ELSE "recognize"
            /\ sfiles' = files
            /\ sidx' = k
            /\ finalResults' = fr
            /\ vision' = EmptyReply
            /\ pend' = NoPromises
            /\ UNCHANGED <<responses, lastResponse>>

\* the top of the for..of loop at image k with rows fr: either the loop is
\* over and the handler answers, or the image's first external call is issued
NextImage(id, files, k, fr, lg) ==
    /\ log' = IF k > Len(files) THEN lg
              ELSE Append(lg, Call(k, IF IsHeic(files[k]) THEN "convert" ELSE "recognize"))
    /\ IF k > Len(files)
       THEN Respond(SuccessResponse(id, fr))
       ELSE /\ spc' = IF IsHeic(files[k]) THEN "convert" ELSE "recognize"
            /\ sfiles' = files
            /\ sidx' = k
            /\ finalResults' = fr
            /\ vision' = EmptyReply
            /\ pend' = NoPromises
            /\ UNCHANGED <<responses, lastResponse>>

\* POST is invoked with a request
PostStart ==
    /\ spc = "idle"
    /\ \E r \in requests :
        /\ requests' = requests \ {r}
        /\ sreq' = r.id
        /\ IF Len(r.files) = 0
           THEN /\ Respond(EmptyResponse(r.id))
                /\ log' = << >>
           ELSE NextImage(r.id, r.files, 1, << >>, << >>)
        /\ fatal' = NoCall
    /\ UNCHANGED <<cvars, hvars, gvars, evars>>

\* what heicConvert can do with a file: with wide, anything
ConvertOutcomes(file, wide) ==
    IF wide THEN {"ok", "fails"}
    ELSE IF file.content = "corrupt" THEN {"fails"} ELSE {"ok"}

\* ConvertReturn without the try/catch around heicConvert: the failure
\* reaches the catch of POST
ConvertReturnThrows(wide) ==
    /\ spc = "convert"
    /\ \E outcome \in ConvertOutcomes(sfiles[sidx], wide) :
        IF outcome = "ok"
        THEN /\ spc' = "recognize"
             /\ log' = Append(log, Call(sidx, "recognize"))
             /\ UNCHANGED <<sfiles, sidx, finalResults, vision, pend, responses,
                            lastResponse, fatal>>
        ELSE /\ Catch(Call(sidx, "convert"), ConvertFailed)
             /\ log' = Append(log, Call(sidx, "convertFailed"))
    /\ UNCHANGED <<cvars, hvars, gvars, evars, requests, sreq>>

\* ConvertReturn with a catch that skips the file without pushing a row
ConvertReturnSkips(wide) ==
    /\ spc = "convert"
    /\ \E outcome \in ConvertOutcomes(sfiles[sidx], wide) :
        IF outcome = "ok"
        THEN /\ spc' = "recognize"
             /\ log' = Append(log, Call(sidx, "recognize"))
             /\ UNCHANGED <<sfiles, sidx, finalResults, vision, pend, responses,
                            lastResponse, fatal>>
        ELSE /\ NextImage(sreq, sfiles, sidx + 1, finalResults,
                    Append(log, Call(sidx, "convertFailed")))
             /\ UNCHANGED fatal
    /\ UNCHANGED <<cvars, hvars, gvars, evars, requests, sreq>>

\* heicConvert settles
ConvertReturn(wide) ==
    /\ spc = "convert"
    /\ \E outcome \in ConvertOutcomes(sfiles[sidx], wide) :
        IF outcome = "ok"
        THEN /\ spc' = "recognize"
             /\ log' = Append(log, Call(sidx, "recognize"))
             /\ UNCHANGED <<sfiles, sidx, finalResults, vision, pend, responses,
                            lastResponse, fatal>>
        ELSE /\ NextImage(sreq, sfiles, sidx + 1,
                    Append(finalResults, ConversionErrorRow(sfiles[sidx], ConvertFailed)),
                    Append(log, Call(sidx, "convertFailed")))
             /\ UNCHANGED fatal
    /\ UNCHANGED <<cvars, hvars, gvars, evars, requests, sreq>>

\* getConditionFromAI up to its first await: the client and model are built
\* outside the try, then generateContentStream is called
ConditionStart(built) ==
    IF built THEN Pending ELSE Rejected(GeminiFailed)

\* getPricingFromSerpApi up to its return: the guard, then getJson is called
\* inside the promise executor
PriceStart(query, thrown) ==
    IF PriceShortCircuit(query) THEN ResolvedPrice(NA, Hash)
    ELSE IF thrown THEN Rejected(SerpFailed)
    ELSE Pending

\* AwaitAll with Promise.race in place of Promise.all: the row is pushed as
\* soon as one of the two lookups has resolved
AwaitAllRace(result, cond, price, lg) ==
    IF cond.state = "rejected"
    THEN /\ Catch(Call(sidx, "condition"), cond.value)
         /\ log' = lg
    ELSE IF price.state = "rejected"
    THEN /\ Catch(Call(sidx, "price"), price.value)
         /\ log' = lg
    ELSE IF cond.state = "resolved" \/ price.state = "resolved"
    THEN /\ NextImage(sreq, sfiles, sidx + 1,
                Append(finalResults, ResultRow(sfiles[sidx], result, cond.value, price)),
                lg)
         /\ UNCHANGED fatal
    ELSE /\ spc' = "enrich"
         /\ vision' = result
         /\ pend' = [cond |-> cond, price |-> price]
         /\ log' = lg
         /\ UNCHANGED <<sfiles, sidx, finalResults, responses, lastResponse, fatal>>

\* await Promise.all([conditionPromise, pricePromise]) with the promises as
\* they are now: reject, continue with the row, or stay suspended
AwaitAll(result, cond, price, lg) ==
    IF cond.state = "rejected"
    THEN /\ Catch(Call(sidx, "condition"), cond.value)
         /\ log' = lg
    ELSE IF price.state = "rejected"
    THEN /\ Catch(Call(sidx, "price"), price.value)
         /\ log' = lg
    ELSE IF cond.state = "resolved" /\ price.state = "resolved"
    THEN /\ NextImage(sreq, sfiles, sidx + 1,
                Append(finalResults, ResultRow(sfiles[sidx], result, cond.value, price)),
                lg)
         /\ UNCHANGED fatal
    ELSE /\ spc' = "enrich"
         /\ vision' = result
         /\ pend' = [cond |-> cond, price |-> price]
         /\ log' = lg
         /\ UNCHANGED <<sfiles, sidx, finalResults, responses, lastResponse, fatal>>

\* analyzeImageWithVisionRest throws: the catch of POST answers
RecognizeFails ==
    /\ spc = "recognize"
    /\ \E failure \in VisionFailures :
        Catch(Call(sidx, "recognize"), VisionError(failure))
    /\ UNCHANGED <<cvars, hvars, gvars, evars, requests, sreq, log>>

\* what the recognition backend can reply for a file: with wide, anything
VisionReplies(file, wide) ==
    IF wide THEN {NominalReply, EmptyReply, EntityReply}
    ELSE IF file.content = "blank" THEN {EmptyReply} ELSE {NominalReply}

\* analyzeImageWithVisionRest returns: both lookups are started, then
\* Promise.all is awaited
RecognizeWith(replies) ==
    /\ spc = "recognize"
    /\ \E result \in replies, built \in BOOLEAN, thrown \in BOOLEAN :
        LET description == Description(result)
            cond == ConditionStart(built)
            price == PriceStart(description, thrown)
            lg1 == IF built THEN Append(log, Call(sidx, "condition")) ELSE log
            lg2 == IF PriceShortCircuit(description) THEN lg1
                   ELSE Append(lg1, Call(sidx, "price"))
        IN  AwaitAll(result, cond, price, lg2)
    /\ UNCHANGED <<cvars, hvars, gvars, evars, requests, sreq>>

\* the recognition backend answers as the file's content determines or, with
\* wide, in any of the ways above
RecognizeReturn(wide) == RecognizeWith(VisionReplies(sfiles[sidx], wide))

\* a reply whose best-guess label is the text N/A
NaReply ==
    [hasWeb |-> TRUE,
     bestGuessLabels |-> <<[label |-> NA]>>,
     webEntities |-> <<[description |-> EntityText, hasScore |-> TRUE, score |-> 946]>>,
     visuallySimilarImages |-> << >>]

\* an empty best-guess label and an entity with a description
EmptyLabelReply ==
    [hasWeb |-> TRUE,
     bestGuessLabels |-> <<[label |-> EmptyText]>>,
     webEntities |-> <<[description |-> EntityText, hasScore |-> TRUE, score |-> 946]>>,
     visuallySimilarImages |-> << >>]

\* no best-guess label and an entity without a description
BareEntityReply ==
    [hasWeb |-> TRUE,
     bestGuessLabels |-> << >>,
     webEntities |-> <<[description |-> NULL, hasScore |-> TRUE, score |-> 946]>>,
     visuallySimilarImages |-> << >>]

\* replies that differ in what they offer as a description
LabelledReplies ==
    {NominalReply, NaReply, EntityReply, EmptyReply, EmptyLabelReply, BareEntityReply}

\* the recognition backend answers with any of these
RecognizeLabelled == RecognizeWith(LabelledReplies)

\* how the generation call can end: with wide, in any way
ConditionOutcomes(wide) ==
    IF wide THEN {"text", "generateFails", "responseFails"} ELSE {"text"}

\* the generation call settles: its text, or the catch's sentinel
ConditionReturn(wide) ==
    /\ spc = "enrich"
    /\ pend.cond.state = "pending"
    /\ \E outcome \in ConditionOutcomes(wide) :
        LET cond == IF outcome = "text" THEN Resolved(ConditionText) ELSE ConditionCatch
        IN  AwaitAll(vision, cond, pend.price, log)
    /\ UNCHANGED <<cvars, hvars, gvars, evars, requests, sreq>>

\* what getJson can hand to the callback: with wide, anything
PriceReplies(wide) ==
    IF wide THEN {NominalJson} \cup DegradedJsons ELSE {NominalJson}

\* getJson invokes the callback with its reply
PriceReturn(wide) ==
    /\ spc = "enrich"
    /\ pend.price.state = "pending"
    /\ \E json \in PriceReplies(wide) :
        AwaitAll(vision, pend.cond, PriceCallback(json), log)
    /\ UNCHANGED <<cvars, hvars, gvars, evars, requests, sreq>>

\* getJson's own promise rejects: the callback is never invoked, and nothing
\* listens to the rejection
PriceCallFails ==
    /\ spc = "enrich"
    /\ pend.price.state = "pending"
    /\ pend' = [pend EXCEPT !.price = Stuck]
    /\ UNCHANGED <<cvars, hvars, gvars, evars, requests, responses, spc, sreq, sfiles, sidx,
                   finalResults, vision, pvars>>

\* A client other than the page posts a form without images
EmptyPost ==
    /\ requests' = requests \cup {[id |-> 0, files |-> << >>]}
    /\ UNCHANGED <<cvars, hvars, responses, svars, gvars, pvars, evars>>

----------------------------------------------------------------------------
\* Functions applied on their own, to inputs wider than the backends above
\* supply

OtherPrice == <<"$", "8">>
OtherRange == <<"$", "9", "-", "9">>
OtherLink == <<"m">>

\* first listings: with or without a typical price range, a single price,
\* a link
FirstListings ==
    { Listing(FALSE, << >>, p, l) : p \in {NULL, EmptyText, PriceText}, l \in {NULL, LinkText} }
    \cup { Listing(TRUE, r, p, l) :
              r \in {<<RangeText>>, <<RangeText, OtherRange>>},
              p \in {NULL, EmptyText, PriceText}, l \in {NULL, LinkText} }

\* what may follow the first listing
LaterListings ==
    { << >>,
      <<Listing(TRUE, <<OtherRange>>, OtherPrice, OtherLink)>>,
      <<Listing(FALSE, << >>, OtherPrice, OtherLink)>> }

PriceInputs ==
    { [fn |-> "price", json |-> j] : j \in DegradedJsons \cup {NominalJson} }
    \cup { [fn |-> "price", json |-> Json(FALSE, TRUE, <<f>> \o rest)] :
              f \in FirstListings, rest \in LaterListings }

\* the getJson callback runs on a reply
ApplyPriceCallback ==
    /\ arg.fn = "price"
    /\ ret = NoArg
    /\ ret' = [fn |-> "price", value |-> PriceCallback(arg.json)]
    /\ UNCHANGED <<cvars, hvars, requests, responses, svars, gvars, pvars,
                   xvars, arg>>

HermesHat == <<"H","e","r","m","e","s"," ","H","a","t">>

\* texts of up to n characters over the letters h, T and the space
RECURSIVE TextsUpTo(_)
TextsUpTo(n) ==
    IF n = 0 THEN {<< >>}
    ELSE TextsUpTo(n - 1)
             \cup { Append(t, c) : t \in TextsUpTo(n - 1), c \in {"h", "T", " "} }

\* descriptions: a best-guess label is any non-empty text
SplitInputs ==
    { [fn |-> "split", description |-> t] :
          t \in (TextsUpTo(MaxDescription) \ {<< >>}) \cup {HermesHat, LabelText} }

\* the brand/model split of POST runs on a description
ApplyBrandModel ==
    /\ arg.fn = "split"
    /\ ret = NoArg
    /\ ret' = [fn |-> "split", brand |-> Brand(arg.description),
                model |-> Model(arg.description)]
    /\ UNCHANGED <<cvars, hvars, requests, responses, svars, gvars, pvars,
                   xvars, arg>>

\* a match as the visual search returns it
Match(title, source, link) ==
    [title |-> title, source |-> source, price |-> NULL, link |-> link,
     thumbnail |-> NULL]

\* titles that differ only in case, and one that differs otherwise
ShortTitles == {<<"A", "b">>, <<"a", "b">>, <<"A", "B">>, <<"c">>}

\* lists of up to n matches; the link of a match tells its position
RECURSIVE MatchLists(_)
MatchLists(n) ==
    IF n = 0 THEN {<< >>}
    ELSE MatchLists(n - 1)
             \cup { Append(l, Match(t, <<"c", ".", "d">>, NatText(Len(l) + 1))) :
                       l \in {x \in MatchLists(n - 1) : Len(x) = n - 1},
                       t \in ShortTitles }

\* the three matches of the de-duplication test
TestMatches ==
    << Match(HermesHat, HermesCom, <<"1">>),
       Match(MadewellThePouchWallet, MadewellCom, <<"2">>),
       Match(hermesHat, HermesCom, <<"3">>) >>

VisualInputs ==
    { [fn |-> "visual", matches |-> l] : l \in MatchLists(MaxMatches) \cup {TestMatches} }
    \cup { [fn |-> "visual", matches |-> <<Match(t, src, <<"1">>)>>] :
              t \in {MadewellThePouchWallet, HermesHat, hermesHat, ThePouchWallet},
              src \in {MadewellCom, HermesCom, HttpsWwwMadewellComShop, WwwHermesCom} }

\* the visual-match normaliser runs on the matches of one image
ApplyVisualRows ==
    /\ arg.fn = "visual"
    /\ ret = NoArg
    /\ ret' = [fn |-> "visual",
                rows |-> VisualRows(<<"t">>, arg.matches, ConditionText)]
    /\ UNCHANGED <<cvars, hvars, requests, responses, svars, gvars, pvars,
                   xvars, arg>>

\* field values: plain, empty, padded, and with the characters the format
\* gives a meaning to
FieldValues ==
    { <<"a">>, << >>, <<" ", "a", " ">>, <<"a", ",", "b">>, <<"\"">>,
      <<"a", "\n", "b">>, <<"\"", ",", "\"", "\"">> }

\* a row whose c-th column holds v
RowWith(c, v) ==
    [ fileName |-> IF c = 1 THEN v ELSE <<"x">>,
      brand |-> IF c = 2 THEN v ELSE <<"x">>,
      model |-> IF c = 3 THEN v ELSE <<"x">>,
      description |-> IF c = 4 THEN v ELSE <<"x">>,
      condition |-> IF c = 5 THEN v ELSE <<"x">>,
      currentRetailPrice |-> IF c = 6 THEN v ELSE <<"x">>,
      webLink |-> IF c = 7 THEN v ELSE <<"x">>,
      correspondingItemPictures |-> IF c = 8 THEN v ELSE <<"x">>,
      confidence |-> IF c = 9 THEN v ELSE <<"x">> ]

\* non-empty result lists of up to n rows; rows after the first vary in
\* their first and last column
RECURSIVE RowLists(_)
RowLists(n) ==
    IF n = 1 THEN { <<RowWith(c, v)>> : c \in 1..9, v \in FieldValues }
    ELSE RowLists(n - 1)
             \cup { Append(l, RowWith(c, v)) :
                       l \in {x \in RowLists(n - 1) : Len(x) = n - 1},
                       c \in {1, 9}, v \in FieldValues }

CsvInputs == { [fn |-> "csv", rows |-> l] : l \in RowLists(MaxRows) }

\* stringify runs on a result list
ApplyStringify ==
    /\ arg.fn = "csv"
    /\ ret = NoArg
    /\ ret' = [fn |-> "csv", text |-> Stringify(arg.rows)]
    /\ UNCHANGED <<cvars, hvars, requests, responses, svars, gvars, pvars,
                   xvars, arg>>

\* scores of the first entity, in thousandths: zero, just below and at a
\* rounding step, below one, rounding up to one, one, above one
Scores == {0, 4, 5, 94, 946, 995, 1000, 12345}

\* a reply whose first entity carries the score s
ScoredReply(s, labelled) ==
    [hasWeb |-> TRUE,
     bestGuessLabels |-> IF labelled THEN <<[label |-> LabelText]>> ELSE << >>,
     webEntities |-> <<[description |-> EntityText, hasScore |-> TRUE, score |-> s]>>,
     visuallySimilarImages |-> << >>]

\* a reply without webDetection
NoWebReply ==
    [hasWeb |-> FALSE, bestGuessLabels |-> << >>, webEntities |-> << >>,
     visuallySimilarImages |-> << >>]

\* a label and a similar image, but no entity
LabelOnlyReply ==
    [hasWeb |-> TRUE, bestGuessLabels |-> <<[label |-> LabelText]>>,
     webEntities |-> << >>, visuallySimilarImages |-> <<[url |-> SimilarUrl]>>]

RowReplies ==
    {NominalReply, EmptyReply, EntityReply, NoWebReply, LabelOnlyReply}
    \cup { ScoredReply(s, l) : s \in Scores, l \in BOOLEAN }

\* the two pushes of POST: a recognised image, a failed conversion
RowInputs ==
    { [fn |-> "row", path |-> "recognized", file |-> MkFile(k), result |-> r] :
          k \in {2, 3}, r \in RowReplies }
    \cup { [fn |-> "row", path |-> "conversion", file |-> MkFile(k),
            result |-> NoWebReply] : k \in {1, 3} }

\* POST pushes the row of one image
ApplyRow ==
    /\ arg.fn = "row"
    /\ ret = NoArg
    /\ ret' = [fn |-> "row",
                row |-> IF arg.path = "recognized"
                        THEN ResultRow(arg.file, arg.result, ConditionText,
                                       PriceCallback(NominalJson))
                        ELSE ConversionErrorRow(arg.file, ConvertFailed)]
    /\ UNCHANGED <<cvars, hvars, requests, responses, svars, gvars, pvars,
                   xvars, arg>>


\* the batches the loop of handleSubmit cuts, in the order it sends them:
\* for (let i = 0; i < filesToProcess.length; i += BATCH_SIZE)
RECURSIVE BatchesFrom(_, _)
BatchesFrom(files, from) ==
    IF from < Len(files)
    THEN <<Slice(files, from)>> \o BatchesFrom(files, from + BATCH_SIZE)
    ELSE << >>

\* selections that pass the guard of handleSubmit
BatchInputs ==
    { [fn |-> "batches", files |-> Selection(n)] : n \in 1..(MaxBatches * BATCH_SIZE) }

\* the loop of handleSubmit cuts a selection into batches
ApplyBatches ==
    /\ arg.fn = "batches"
    /\ ret = NoArg
    /\ ret' = [fn |-> "batches", batches |-> BatchesFrom(arg.files, 0)]
    /\ UNCHANGED <<cvars, hvars, requests, responses, svars, gvars, pvars,
                   xvars, arg>>


----------------------------------------------------------------------------
\* Specifications

\* Run level: selections of up to MaxBatches batches; each backend answers
\* as the file's content determines, or fails fatally
Next ==
    \/ \E n \in SelectionSizes : handleFileChange(n)
    \/ handleSubmitEmpty
    \/ handleSubmit
    \/ ReceiveResponse
    \/ FetchFails
    \/ PostStart
    \/ ConvertReturn(FALSE)
    \/ RecognizeFails
    \/ RecognizeReturn(FALSE)
    \/ ConditionReturn(FALSE)
    \/ PriceReturn(FALSE)
    \/ PriceCallFails

Spec == Init /\ [][Next]_vars

\* Request level: selections of up to MaxImages images; every backend
\* outcome is possible for every image
NextPost ==
    \/ \E n \in 0..MaxImages : handleFileChange(n)
    \/ handleSubmitEmpty
    \/ handleSubmit
    \/ ReceiveResponse
    \/ FetchFails
    \/ PostStart
    \/ ConvertReturn(TRUE)
    \/ RecognizeFails
    \/ RecognizeReturn(TRUE)
    \/ ConditionReturn(TRUE)
    \/ PriceReturn(TRUE)
    \/ PriceCallFails

SpecPost == Init /\ [][NextPost]_vars

\* Request level with best-guess labels that include the text N/A: the
\* transcoder and the pricing backend answer as the file's content
\* determines
NextLabelled ==
    \/ \E n \in 0..MaxImages : handleFileChange(n)
    \/ handleSubmitEmpty
    \/ handleSubmit
    \/ ReceiveResponse
    \/ FetchFails
    \/ PostStart
    \/ ConvertReturn(FALSE)
    \/ RecognizeFails
    \/ RecognizeLabelled
    \/ ConditionReturn(TRUE)
    \/ PriceReturn(FALSE)

SpecLabelled == Init /\ [][NextLabelled]_vars

\* nothing selected, one file, the smallest selection of two batches
UsageSizes == {0, 1, BATCH_SIZE + 1}

\* Run level with the export button and with requests that do not come from
\* the page
NextUsage ==
    \/ \E n \in UsageSizes : handleFileChange(n)
    \/ handleSubmitEmpty
    \/ handleSubmit
    \/ ReceiveResponse
    \/ FetchFails
    \/ PostStart
    \/ ConvertReturn(FALSE)
    \/ RecognizeFails
    \/ RecognizeReturn(FALSE)
    \/ ConditionReturn(FALSE)
    \/ PriceReturn(FALSE)
    \/ PriceCallFails
    \/ handleExportCsv
    \/ handleExportCsvEmpty
    \/ EmptyPost

SpecUsage == Init /\ [][NextUsage]_vars

\* Function level: one function is applied to one input
FnInputs ==
    PriceInputs \cup SplitInputs \cup VisualInputs \cup CsvInputs \cup RowInputs
        \cup BatchInputs

InitFn ==
    /\ selectedFiles = << >>
    /\ loading = FALSE
    /\ progress = Zero
    /\ results = << >>
    /\ error = NULL
    /\ cpc = "idle"
    /\ i = 0
    /\ allResults = << >>
    /\ filesToProcess = << >>
    /\ requests = {}
    /\ responses = {}
    /\ spc = "idle"
    /\ sreq = 0
    /\ sfiles = << >>
    /\ sidx = 0
    /\ finalResults = << >>
    /\ vision = EmptyReply
    /\ pend = NoPromises
    /\ status = "Idle"
    /\ sent = << >>
    /\ received = << >>
    /\ log = << >>
    /\ lastResponse = NoResponse
    /\ fatal = NoCall
    /\ touched = FALSE
    /\ download = NoDownload
    /\ alerted = NULL
    /\ arg \in FnInputs
    /\ ret = NoArg

NextFn ==
    \/ ApplyPriceCallback
    \/ ApplyBrandModel
    \/ ApplyVisualRows
    \/ ApplyStringify
    \/ ApplyRow
    \/ ApplyBatches

SpecFn == InitFn /\ [][NextFn]_vars

----------------------------------------------------------------------------
\* Vocabulary of the properties

Terminal == status \in {"Succeeded", "Failed"}

\* index of the first batch of the current run whose request failed, 0 if none
FirstFail ==
    IF \E j \in 1..Len(received) : ~received[j].ok
    THEN CHOOSE j \in 1..Len(received) :
            ~received[j].ok /\ \A m \in 1..(j - 1) : received[m].ok
    ELSE 0

RECURSIVE RowsUpTo(_)
\* the rows returned by batches 1..n of the current run, concatenated
RowsUpTo(n) ==
    IF n = 0 THEN << >> ELSE RowsUpTo(n - 1) \o received[n].rows

\* batch requests of the run that are under way: sent, being handled, or
\* answered and not yet read
Outstanding ==
    Cardinality(requests) + Cardinality(responses) + (IF spc = "idle" THEN 0 ELSE 1)

\* the handler has answered the request it took last
Answered == spc = "idle" /\ sreq # 0 /\ lastResponse.id = sreq

\* the rows the handler holds for the request it took last
RowsSoFar == IF spc = "idle" THEN lastResponse.results ELSE finalResults

\* calls of the given kinds logged for image k of the current request
CallsFor(k, kinds) == {j \in 1..Len(log) : log[j].img = k /\ log[j].call \in kinds}

\* number of the file that is image k of batch b
FileId(b, k) == (b - 1) * BATCH_SIZE + k

----------------------------------------------------------------------------
\* C1: when the request of batch k fails, the run is reported failed and the
\* aggregated results are exactly the rows returned by batches 1..k-1, in
\* order: no row of batch k (whose response carries none, even if images of
\* it were processed before the failing one) and no row of a later batch.
\* The list shown equals the aggregate as long as the selection was not
\* changed since the run started.
C1_FailedKeepsEarlierBatches ==
    /\ status = "Failed" =>
        LET k == Len(received)
        IN  /\ k >= 1 /\ ~received[k].ok /\ received[k].k = k
            /\ ~loading
            /\ allResults = RowsUpTo(k - 1)
            /\ \A j \in 1..Len(allResults) :
                   allResults[j].fileName.id <= (k - 1) * BATCH_SIZE
            /\ ~touched => (results = allResults /\ Truthy(error))
    /\ fatal.call = "recognize" =>
        /\ ~lastResponse.ok /\ lastResponse.results = << >>
        /\ \/ lastResponse \in responses /\ status = "Running"
           \/ status = "Failed" /\ Len(received) = lastResponse.id
    /\ \A j \in 1..Len(received) : received[j].ok =>
           /\ Len(received[j].rows) = Len(Slice(filesToProcess, (j - 1) * BATCH_SIZE))
           /\ \A m \in 1..Len(received[j].rows) :
                  received[j].rows[m].fileName = filesToProcess[FileId(j, m)]

\* recognition fails for a later image of the second batch, after the first
\* batch returned its 20 rows
C1_Witness ==
    /\ status = "Failed" /\ ~touched
    /\ fatal.call = "recognize" /\ fatal.img > 1
    /\ Len(received) = 2 /\ Len(filesToProcess) > 2 * BATCH_SIZE
    /\ Len(results) = BATCH_SIZE

\* C2: after the first batch whose request fails no further request is sent:
\* the requests of a run are batches 1, 2, ... in order, and their number is
\* the index of the first failing batch, or the number of batches if none
\* fails.
C2_NoRequestAfterFailure ==
    /\ \A j \in 1..Len(sent) : sent[j] = j
    /\ FirstFail # 0 =>
        /\ Len(sent) = FirstFail
        /\ Len(received) = FirstFail
        /\ Outstanding = 0
    /\ status = "Failed" => FirstFail # 0
    /\ status = "Succeeded" =>
        /\ FirstFail = 0
        /\ Len(sent) = NumBatches(filesToProcess)

\* a three-batch run whose second batch failed
C2_Witness ==
    /\ status = "Failed"
    /\ NumBatches(filesToProcess) = 3
    /\ FirstFail = 2 /\ Len(sent) = 2

\* C3: batches are dispatched one after another: at most one batch request
\* is outstanding, and the request of batch k+1 exists only once the
\* response of batch k was received and its rows appended.
C3_OneBatchAtATime ==
    /\ Outstanding <= 1
    /\ Len(sent) <= Len(received) + 1
    /\ status = "Running" =>
        /\ Len(sent) = Len(received) + 1
        /\ \A j \in 1..Len(received) : received[j].ok /\ received[j].k = j
        /\ allResults = RowsUpTo(Len(received))
    /\ Terminal => Outstanding = 0

\* the second batch is being handled after the first returned its rows
C3_Witness ==
    /\ status = "Running" /\ Len(sent) = 2 /\ spc = "enrich"
    /\ Len(allResults) = BATCH_SIZE

\* C4: when the recognition call fails for an image, POST answers with a
\* non-2xx status and a body with an error message and no results, and no
\* call (transcoder, recognition, pricing, condition) is made for any later
\* image, nor a pricing or condition call for the failing one.
C4_RecognitionFailureIsFatal ==
    fatal.call = "recognize" =>
        /\ Answered
        /\ ~(lastResponse.status >= 200 /\ lastResponse.status < 300)
        /\ ~lastResponse.ok
        /\ Truthy(lastResponse.error)
        /\ ~lastResponse.hasResults /\ lastResponse.results = << >>
        /\ \A j \in 1..Len(log) : log[j].img <= fatal.img
        /\ CallsFor(fatal.img, {"price", "condition"}) = {}

\* recognition failed for the first of two images
C4_Witness ==
    /\ fatal = Call(1, "recognize")
    /\ Len(filesToProcess) = 2 /\ Len(sent) = 1
    /\ Answered

\* C5: a transcoder failure does not fail the request: the image gets exactly
\* one row (brand CONVERSION_ERROR, the transcoder's message as description,
\* confidence "0.00"), no recognition, pricing or condition call is made for
\* it, and the handler goes on with the next image.
C5_ConversionErrorIsOneRow ==
    /\ fatal.call \notin {"convert", "convertFailed"}
    /\ \A j \in 1..Len(log) : log[j].call = "convertFailed" =>
        LET k == log[j].img
            mine == {m \in 1..Len(RowsSoFar) : RowsSoFar[m].fileName.id = FileId(sreq, k)}
        IN  /\ CallsFor(k, {"recognize", "condition", "price"}) = {}
            /\ Cardinality(CallsFor(k, {"convert"})) = 1
            /\ spc # "idle" => sidx > k
            /\ (spc # "idle" \/ lastResponse.ok) =>
                /\ Cardinality(mine) = 1
                /\ \A m \in mine :
                    /\ RowsSoFar[m].brand = ConversionErrorBrand
                    /\ RowsSoFar[m].description = ConvertFailed
                    /\ RowsSoFar[m].confidence = ZeroConfidence
            /\ (Answered /\ ~lastResponse.ok) => fatal.img > k
    /\ (Answered /\ lastResponse.ok /\ ~touched /\ status = "Running") =>
           Len(lastResponse.results) = Len(Slice(filesToProcess, (sreq - 1) * BATCH_SIZE))

\* the first image failed to convert, the second was recognised, and the
\* request succeeded with both rows
C5_Witness ==
    /\ Answered /\ lastResponse.ok
    /\ Len(lastResponse.results) = 2
    /\ lastResponse.results[1].brand = ConversionErrorBrand
    /\ lastResponse.results[2].brand # ConversionErrorBrand
    /\ \E j \in 1..Len(log) : log[j] = Call(1, "convertFailed")

\* C6: a request in which recognition succeeds for every image is answered
\* with success whatever the pricing and condition backends do.
C6_Claim ==
    (Answered /\ lastResponse.status # 400 /\ fatal.call # "recognize") => lastResponse.ok

\* C7: getPricingFromSerpApi always settles with a {price, link} value: it
\* never rejects, and it does not stay pending once the backend call ended.
C7_Claim ==
    /\ fatal.call # "price"
    /\ pend.price.state \notin {"rejected", "stuck"}

\* C8: getConditionFromAI never raises, whatever part of the condition path
\* fails.
C8_Claim == fatal.call # "condition"

\* C9: the run status moves only Idle -> Running -> Succeeded | Failed; a
\* terminal status is left only by starting a new run; Succeeded is reached
\* exactly when every batch of the run returned successfully, Failed exactly
\* when a batch failed.
C9_StatusNow ==
    /\ status \in {"Idle", "Running", "Succeeded", "Failed"}
    /\ status = "Idle" => (sent = << >> /\ received = << >> /\ ~loading)
    /\ status = "Running" <=> loading
    /\ status = "Succeeded" <=>
        /\ Len(received) >= 1
        /\ Len(received) = NumBatches(filesToProcess)
        /\ \A j \in 1..Len(received) : received[j].ok
    /\ status = "Failed" <=> FirstFail # 0

C9_StatusStep ==
    status' # status =>
        \/ status = "Idle" /\ status' = "Running"
        \/ status = "Running" /\ status' \in {"Succeeded", "Failed"}
        \/ /\ status \in {"Succeeded", "Failed"}
           /\ status' = "Running"
           /\ sent' = <<1>> /\ received' = << >> /\ results' = << >>

C9_StatusMachine == [](C9_StatusNow) /\ [][C9_StatusStep]_vars

\* a three-batch run that succeeded
C9_Witness ==
    /\ status = "Succeeded"
    /\ Len(received) = 3
    /\ Len(results) = Len(filesToProcess)

----------------------------------------------------------------------------
\* Progress as a number: fractions are compared by cross-multiplication

\* a <= b for fractions with positive denominators
FracLeq(a, b) == a.num * b.den <= b.num * a.den

\* the processed count behind the percentage shown: percent * total / 100
ProcessedCount == (progress.num * Len(filesToProcess)) \div (progress.den * 100)

RECURSIVE SizesUpTo(_)
\* the sizes of batches 1..n of the current run, added up
SizesUpTo(n) ==
    IF n = 0 THEN 0
    ELSE SizesUpTo(n - 1) + Len(Slice(filesToProcess, (n - 1) * BATCH_SIZE))

\* the number of batches of the current run that came back successfully
SucceededBatches == Len(received) - (IF FirstFail = 0 THEN 0 ELSE 1)

\* C11: within a run the progress value never decreases, from the start of
\* the run to its terminal status, and it always lies within 0..100 percent.
C11_ProgressInRange ==
    /\ progress.den > 0
    /\ FracLeq(Zero, progress)
    /\ FracLeq(progress, [num |-> 100, den |-> 1])

C11_ProgressStep == (status = "Running") => FracLeq(progress, progress')

C11_ProgressMonotone == [](C11_ProgressInRange) /\ [][C11_ProgressStep]_vars

\* a three-batch run after its second progress update, above the first
C11_Witness ==
    /\ status = "Running" /\ Len(received) = 2
    /\ progress = [num |-> 2 * BATCH_SIZE * 100, den |-> Len(filesToProcess)]
    /\ Len(filesToProcess) > 2 * BATCH_SIZE

\* C12: after the k-th batch of a run succeeded, the processed count is the
\* sum of the sizes of batches 1..k and the cumulative result list is the
\* concatenation, in batch order, of the rows batches 1..k returned; at
\* Succeeded the processed count is the number of files (100 percent); a
\* failed batch changes neither the processed count nor the result list.
\* (The list shown is the cumulative list unless the selection was changed
\* since the last batch came back.)
C12_CountNow ==
    /\ status # "Idle" =>
        LET k == SucceededBatches
        IN  /\ progress.num * Len(filesToProcess)
                    = SizesUpTo(k) * 100 * progress.den
            /\ ProcessedCount = SizesUpTo(k)
            /\ allResults = RowsUpTo(k)
            /\ results = allResults \/ (touched /\ results = << >>)
    /\ status = "Succeeded" =>
        /\ ProcessedCount = Len(filesToProcess)
        /\ progress.num = 100 * progress.den

C12_FailedBatchStep ==
    (status = "Running" /\ status' = "Failed") =>
        (progress' = progress /\ allResults' = allResults /\ results' = results)

C12_ProcessedCount == [](C12_CountNow) /\ [][C12_FailedBatchStep]_vars

\* the third batch of a run failed after two batches were counted
C12_Witness ==
    /\ status = "Failed" /\ Len(received) = 3
    /\ ProcessedCount = 2 * BATCH_SIZE
    /\ Len(results) = 2 * BATCH_SIZE

\* the name of the file ends in .heic or .heif, in any mix of cases
EndsInHeic(file) ==
    [k \in 1..Len(file.ext) |-> ToUpperCase(file.ext[k])]
        \in {<<"H","E","I","C">>, <<"H","E","I","F">>}

\* the file that is image k of the request the handler took last
ImageFile(k) == filesToProcess[FileId(sreq, k)]

\* C13: for every file of a request, if its name ends in .heic or .heif
\* (case-insensitively) the transcoder is called exactly once for it and that
\* call has completed before the recognition call for the file is made; for
\* any other ending the transcoder is never called.
C13_HeicThroughTranscoder ==
    /\ \A j \in 1..Len(log) :
        LET k == log[j].img
        IN  /\ log[j].call = "convert" =>
                /\ EndsInHeic(ImageFile(k))
                /\ CallsFor(k, {"convert"}) = {j}
            /\ log[j].call = "recognize" =>
                IF EndsInHeic(ImageFile(k))
                THEN /\ j > 1 /\ log[j - 1] = Call(k, "convert")
                     /\ ~(spc = "convert" /\ sidx = k)
                ELSE CallsFor(k, {"convert", "convertFailed"}) = {}
    /\ spc = "convert" =>
        /\ log[Len(log)] = Call(sidx, "convert")
        /\ CallsFor(sidx, {"recognize"}) = {}
    /\ (Answered /\ lastResponse.ok) =>
        \A k \in 1..Len(lastResponse.results) :
            Cardinality(CallsFor(k, {"convert"}))
                = IF EndsInHeic(ImageFile(k)) THEN 1 ELSE 0

\* a request of an upper-case .HEIC file and a .jpg file was answered: one
\* transcoder call, made before the first recognition call
C13_Witness ==
    /\ Answered /\ lastResponse.ok /\ Len(lastResponse.results) = 2
    /\ ImageFile(1).ext = HEIC /\ ~EndsInHeic(ImageFile(2))
    /\ log[1] = Call(1, "convert") /\ log[2] = Call(1, "recognize")
    /\ CallsFor(2, {"recognize"}) # {}

\* C14: an export is only carried out in a terminal status, never while a
\* run is Running, also not after the first batch of a multi-batch run has
\* returned its rows.
C14_Claim == download.made => download.during \in {"Succeeded", "Failed"}

\* C15: a usage error is rejected before any external call and without
\* changing run state. Submitting with nothing selected sends no analyze
\* request; requesting an export of an empty result list produces no file; a
\* POST without images calls no backend; each leaves the result list, the
\* progress and the running flag as they were.
RunStateKept ==
    /\ results' = results /\ allResults' = allResults
    /\ progress' = progress /\ loading' = loading /\ status' = status

\* the message for an empty selection appears
C15_SubmitNothing ==
    (Len(selectedFiles) = 0 /\ error # PleaseSelect /\ error' = PleaseSelect) =>
        /\ RunStateKept
        /\ requests' = requests /\ sent' = sent /\ log' = log /\ spc' = spc

\* the alert for an empty result list appears, or nothing is there to export
C15_ExportNothing ==
    /\ (alerted # NoResultsToExport /\ alerted' = NoResultsToExport) =>
        /\ Len(results) = 0
        /\ RunStateKept
        /\ download' = download /\ requests' = requests /\ log' = log
    /\ Len(results) = 0 => (download' = download \/ ~download'.made)

\* the handler takes a request that holds no image
C15_PostNothing ==
    (\E r \in requests : r \notin requests' /\ Len(r.files) = 0) =>
        /\ RunStateKept
        /\ log' = << >> /\ spc' = "idle"
        /\ lastResponse'.status = 400 /\ ~lastResponse'.ok
        /\ lastResponse'.error = NoImagesUploaded
        /\ lastResponse' \in responses'

C15_UsageErrors ==
    [][C15_SubmitNothing /\ C15_ExportNothing /\ C15_PostNothing]_vars

\* all three usage errors happened after a run left rows and progress behind
\* with nothing selected any more
C15_Witness ==
    /\ error = PleaseSelect /\ Len(selectedFiles) = 0
    /\ Len(allResults) > 0 /\ progress # Zero
    /\ alerted = NoResultsToExport
    /\ lastResponse.status = 400

\* C17: when the first listing of the pricing reply carries a typical price
\* range the resolved price is the first entry of that range, whatever single
\* price the listing has; otherwise it is the listing's single price, or
\* "N/A" when it has none; listings after the first have no influence.
C17_TypicalRangeFirst ==
    (ret # NoArg /\ ret.fn = "price") =>
        LET json == arg.json
            listed == ~json.isNull /\ json.hasResults /\ Len(json.shopping_results) > 0
            first == json.shopping_results[1]
        IN  /\ ret.value.state = "resolved"
            /\ ~listed => (ret.value.price = NA /\ ret.value.link = Hash)
            /\ (listed /\ first.hasTypical) =>
                   ret.value.price = first.typical_price_range[1]
            /\ (listed /\ ~first.hasTypical /\ Truthy(first.price)) =>
                   ret.value.price = first.price
            /\ (listed /\ ~first.hasTypical /\ ~Truthy(first.price)) =>
                   ret.value.price = NA
            /\ listed => ret.value.link \in {first.link, Hash}
            /\ (listed /\ Len(json.shopping_results) > 1) =>
                   /\ ret.value.price \notin {OtherPrice, OtherRange}
                   /\ ret.value.link # OtherLink

\* a first listing with both a range and a single price, followed by another
\* listing: the range's first entry is the price
C17_Witness ==
    /\ ret # NoArg /\ ret.fn = "price"
    /\ Len(arg.json.shopping_results) = 2
    /\ arg.json.shopping_results[1].hasTypical
    /\ arg.json.shopping_results[1].price = PriceText
    /\ ret.value.price = RangeText

RECURSIVE TokensFrom(_, _, _, _)
TokensFrom(s, k, cur, acc) ==
    LET done == IF Len(cur) > 0 THEN Append(acc, cur) ELSE acc
    IN  IF k > Len(s) THEN done
        ELSE IF s[k] = " " THEN TokensFrom(s, k + 1, << >>, done)
        ELSE TokensFrom(s, k + 1, Append(cur, s[k]), acc)

\* the whitespace-separated tokens of a text
Tokens(s) == TokensFrom(s, 1, << >>, << >>)

\* C18: brand is the first whitespace-separated token of the description
\* with its first character upper-cased, model the remaining tokens joined by
\* single spaces, and for a single-token description model is the description
\* unchanged; also with leading, trailing or repeated whitespace.
C18_Claim ==
    (ret # NoArg /\ ret.fn = "split" /\ Len(Tokens(arg.description)) > 0) =>
        LET tokens == Tokens(arg.description)
        IN  /\ ret.brand = <<ToUpperCase(tokens[1][1])>> \o Tail(tokens[1])
            /\ ret.model = IF Len(tokens) = 1 THEN arg.description
                           ELSE Join(Tail(tokens))

\* the titles of the image's matches, compared case-insensitively
TitleKeys == {LowerText(arg.matches[k].title) : k \in 1..Len(arg.matches)}

\* position of the first match of the image with the given title
FirstWith(key) ==
    CHOOSE k \in 1..Len(arg.matches) :
        /\ LowerText(arg.matches[k].title) = key
        /\ \A m \in 1..(k - 1) : LowerText(arg.matches[m].title) # key

\* one row per distinct title, with the attributes of the first match that
\* has it, in the order of the matches
OneRowPerTitle ==
    /\ Len(ret.rows) <= Cardinality(TitleKeys)
    /\ \A key \in TitleKeys :
        /\ Cardinality({j \in 1..Len(ret.rows) :
                            LowerText(ret.rows[j].description) = key}) = 1
        /\ \A j \in 1..Len(ret.rows) :
               LowerText(ret.rows[j].description) = key =>
                   /\ ret.rows[j].description = arg.matches[FirstWith(key)].title
                   /\ ret.rows[j].webLink = arg.matches[FirstWith(key)].link
    /\ \A j1, j2 \in 1..Len(ret.rows) :
           j1 < j2 => FirstWith(LowerText(ret.rows[j1].description))
                          < FirstWith(LowerText(ret.rows[j2].description))

\* C16 as stated: for every image of the visual-match variant the number of
\* rows never exceeds the number of distinct case-insensitive titles among
\* its matches; matches whose titles differ only in case give one row with
\* the attributes of the first seen, and the rows keep the matches' order.
C16_Claim == (ret # NoArg /\ ret.fn = "visual") => OneRowPerTitle

\* C16 as amended: the same for every image that has at least one match (an
\* image without a match gets the single "Not Found" row).
C16_DedupFirstSeen ==
    (ret # NoArg /\ ret.fn = "visual") =>
        IF Len(arg.matches) > 0 THEN OneRowPerTitle
        ELSE Len(ret.rows) = 1 /\ ret.rows[1].brand = NotFound

\* three matches, the third with the first's title in another case: two rows,
\* the first with the first match's attributes
C16_Witness ==
    /\ ret # NoArg /\ ret.fn = "visual"
    /\ Len(arg.matches) = 3 /\ Len(ret.rows) = 2
    /\ arg.matches[1].title # arg.matches[3].title
    /\ LowerText(arg.matches[1].title) = LowerText(arg.matches[3].title)
    /\ ret.rows[1].webLink = <<"1">> /\ ret.rows[2].webLink = <<"2">>

\* the brand is the label of the source's domain: the source reads
\* [protocol://][www.]<brand>.<rest>, the www. never being part of the brand
IsDomainLabelOf(brand, source) ==
    \E p \in {<< >>, <<"h","t","t","p","s">> \o Protocol}, w \in {<< >>, Www} :
        /\ StartsWith(source, p \o w \o LowerText(brand) \o Dot)
        /\ w = << >> => ~StartsWith(Drop(source, Len(p)), Www)

\* C19: in the visual-match variant brand is derived from the match's source
\* domain (protocol and leading www. stripped, the part before the first
\* '.', first character upper-cased); when the title starts with that brand
\* (case-insensitively) model is the title without the brand prefix,
\* otherwise the full title: source "madewell.com" and title "Madewell The
\* Pouch Wallet" give brand "Madewell" and model "The Pouch Wallet".
C19_VisualBrandModel ==
    (ret # NoArg /\ ret.fn = "visual" /\ Len(arg.matches) > 0) =>
        \A j \in 1..Len(ret.rows) :
            LET row == ret.rows[j]
                match == arg.matches[FirstWith(LowerText(row.description))]
                title == match.title
            IN  /\ Len(row.brand) > 0
                /\ row.brand[1] = ToUpperCase(row.brand[1])
                /\ \A k \in 1..Len(row.brand) : row.brand[k] \notin {".", "/", ":"}
                /\ IsDomainLabelOf(row.brand, match.source)
                /\ IF StartsWith(LowerText(title), LowerText(row.brand))
                   THEN /\ \E n \in 0..Len(title) :
                              /\ Drop(title, Len(row.brand))
                                     = [k \in 1..n |-> " "] \o row.model
                        /\ Len(row.model) > 0 => row.model[1] # " "
                   ELSE row.model = title
                /\ (match.source = MadewellCom /\ title = MadewellThePouchWallet) =>
                       (row.brand = Madewell /\ row.model = ThePouchWallet)
                /\ (match.source = HermesCom /\ title = hermesHat) =>
                       (row.brand = Hermes /\ row.model = <<"h", "a", "t">>)

\* the example of the claim, and a source with protocol, www. and a path
C19_Witness ==
    /\ ret # NoArg /\ ret.fn = "visual"
    /\ Len(arg.matches) = 1 /\ Len(ret.rows) = 1
    /\ arg.matches[1].source \in {MadewellCom, HttpsWwwMadewellComShop}
    /\ arg.matches[1].title = MadewellThePouchWallet
    /\ ret.rows[1].brand = Madewell /\ ret.rows[1].model = ThePouchWallet

\* A reader of delimited text: fields separated by commas, records ended by
\* a line feed, a field in quotes holding any character, a quote inside it
\* written twice.

RECURSIVE PlainField(_, _, _)
\* the rest of a field outside quotes, from position k
PlainField(text, k, acc) ==
    IF k > Len(text) THEN [value |-> acc, next |-> k, end |-> "eof"]
    ELSE IF text[k] = "," THEN [value |-> acc, next |-> k + 1, end |-> "comma"]
    ELSE IF text[k] = "\n" THEN [value |-> acc, next |-> k + 1, end |-> "newline"]
    ELSE PlainField(text, k + 1, Append(acc, text[k]))

RECURSIVE QuotedField(_, _, _)
\* the rest of a field inside quotes, from position k
QuotedField(text, k, acc) ==
    IF k > Len(text) THEN [value |-> acc, next |-> k, end |-> "eof"]
    ELSE IF text[k] # "\"" THEN QuotedField(text, k + 1, Append(acc, text[k]))
    ELSE IF k < Len(text) /\ text[k + 1] = "\""
    THEN QuotedField(text, k + 2, Append(acc, "\""))
    ELSE PlainField(text, k + 1, acc)

ParseField(text, k) ==
    IF k <= Len(text) /\ text[k] = "\"" THEN QuotedField(text, k + 1, << >>)
    ELSE PlainField(text, k, << >>)

RECURSIVE ParseRecord(_, _, _)
ParseRecord(text, k, record) ==
    LET f == ParseField(text, k)
    IN  IF f.end = "comma" THEN ParseRecord(text, f.next, Append(record, f.value))
        ELSE [record |-> Append(record, f.value), next |-> f.next]

RECURSIVE ParseRecords(_, _, _)
ParseRecords(text, k, records) ==
    IF k > Len(text) THEN records
    ELSE LET r == ParseRecord(text, k, << >>)
         IN  ParseRecords(text, r.next, Append(records, r.record))

Parse(text) == ParseRecords(text, 1, << >>)

\* the nine headers, in order
ExpectedHeader ==
    << <<"F","i","l","e"," ","N","a","m","e">>,
       <<"B","r","a","n","d">>,
       <<"M","o","d","e","l">>,
       <<"D","e","s","c","r","i","p","t","i","o","n">>,
       <<"C","o","n","d","i","t","i","o","n">>,
       <<"C","u","r","r","e","n","t"," ","R","e","t","a","i","l"," ","P",
         "r","i","c","e">>,
       <<"W","e","b"," ","L","i","n","k">>,
       <<"C","o","r","r","e","s","p","o","n","d","i","n","g"," ","I","t",
         "e","m"," ","P","i","c","t","u","r","e","s">>,
       <<"C","o","n","f","i","d","e","n","c","e"," ","(","S","i","m","i",
         "l","a","r","i","t","y",")">> >>

\* the field values of a result, in the order of the columns
FieldsOf(row) ==
    << row.fileName, row.brand, row.model, row.description, row.condition,
       row.currentRetailPrice, row.webLink, row.correspondingItemPictures,
       row.confidence >>

\* C20: exporting a non-empty list of N results and reading the delimited
\* output back gives a header row with exactly the nine columns, in order,
\* followed by N rows whose field values are those of the N results, in the
\* same order.
C20_CsvRoundTrip ==
    (ret # NoArg /\ ret.fn = "csv") =>
        LET back == Parse(ret.text)
            N == Len(arg.rows)
        IN  /\ Len(back) = N + 1
            /\ Len(back[1]) = 9
            /\ back[1] = ExpectedHeader
            /\ \A k \in 1..N : back[k + 1] = FieldsOf(arg.rows[k])

\* two results, the first with a quote, a comma and a line feed among its
\* values' characters: three records come back
C20_Witness ==
    /\ ret # NoArg /\ ret.fn = "csv"
    /\ Len(arg.rows) = 2
    /\ arg.rows[1].fileName = <<"\"", ",", "\"", "\"">>
    /\ arg.rows[2].confidence = <<"a", "\n", "b">>
    /\ Len(Parse(ret.text)) = 3

\* a text of digits
IsDigits(t) == \A k \in 1..Len(t) : \E d \in 1..10 : t[k] = Digits[d]

\* at least one digit, a dot, exactly two digits
TwoDecimals(t) ==
    /\ Len(t) >= 4
    /\ t[Len(t) - 2] = "."
    /\ IsDigits(SubSeq(t, 1, Len(t) - 3))
    /\ IsDigits(SubSeq(t, Len(t) - 1, Len(t)))

\* the reply carries a numeric score for its first entity
HasScore(result) ==
    result.hasWeb /\ Len(result.webEntities) > 0 /\ result.webEntities[1].hasScore

\* C21: the confidence of every row pushed (recognised image with a score,
\* recognised image without one, failed conversion) is a text with exactly
\* two decimal digits, and it is "0.00" whenever the reply carries no
\* numeric score.
C21_ConfidenceTwoDecimals ==
    ret.fn = "row" =>
        /\ TwoDecimals(ret.row.confidence)
        /\ (arg.path = "conversion" \/ ~HasScore(arg.result))
               => ret.row.confidence = ZeroConfidence

\* a row was pushed for an image whose first entity has no score, and its
\* confidence is 0.00
C21_Witness ==
    /\ ret.fn = "row"
    /\ arg.path = "recognized"
    /\ arg.result = EntityReply
    /\ ~HasScore(arg.result)
    /\ ret.row.confidence = <<"0", ".", "0", "0">>

RECURSIVE Flatten(_)
\* the concatenation of a sequence of sequences
Flatten(seqs) ==
    IF Len(seqs) = 0 THEN << >> ELSE seqs[1] \o Flatten(Tail(seqs))

\* C22: for every selection of n >= 1 files the batches are consecutive
\* slices of the selection in its order: every file is in exactly one batch,
\* no batch is empty, every batch but the last holds exactly 20 files and
\* the last holds 1 to 20, so there are ceil(n / 20) batches.
C22_BatchesPartition ==
    ret.fn = "batches" =>
        LET n == Len(arg.files)
            b == ret.batches
            m == Len(b)
        IN  /\ Flatten(b) = arg.files
            /\ \A f \in 1..n :
                  Cardinality({ p \in { <<k, j>> : k \in 1..m, j \in 1..20 } :
                                   /\ p[2] <= Len(b[p[1]])
                                   /\ b[p[1]][p[2]] = arg.files[f] }) = 1
            /\ \A k \in 1..m : Len(b[k]) >= 1 /\ Len(b[k]) <= 20
            /\ \A k \in 1..(m - 1) : Len(b[k]) = 20
            /\ 20 * m >= n
            /\ 20 * (m - 1) < n

\* 41 files were cut into batches of 20, 20 and 1
C22_Witness ==
    /\ ret.fn = "batches"
    /\ Len(arg.files) = 41
    /\ Len(ret.batches) = 3
    /\ Len(ret.batches[1]) = 20
    /\ Len(ret.batches[3]) = 1
    /\ ret.batches[3][1] = arg.files[41]


\* the recognition, condition and pricing calls of image k were all issued,
\* the recognition call first
IssuedAfterRecognition(k) ==
    \E jr, jc, jp \in 1..Len(log) :
        /\ log[jr] = Call(k, "recognize")
        /\ log[jc] = Call(k, "condition")
        /\ log[jp] = Call(k, "price")
        /\ jr < jc /\ jr < jp

\* the handler's row list before and after a step
RowsBefore == finalResults
RowsAfter == IF spc' = "idle" THEN lastResponse'.results ELSE finalResults'

\* the step appends a row to the handler's list
RowAppended ==
    /\ spc # "idle"
    /\ Len(RowsAfter) = Len(RowsBefore) + 1
    /\ RowsAfter = Append(RowsBefore, RowsAfter[Len(RowsAfter)])

\* the lookups of image k that are made were issued after its recognition
\* call: the condition request, and the pricing request unless the
\* description is one for which getPricingFromSerpApi makes none
LookupsIssued(k, description) ==
    \E jr, jc \in 1..Len(log) :
        /\ log[jr] = Call(k, "recognize")
        /\ log[jc] = Call(k, "condition")
        /\ jr < jc
        /\ \/ PriceShortCircuit(description) /\ CallsFor(k, {"price"}) = {}
           \/ \E jp \in 1..Len(log) : log[jp] = Call(k, "price") /\ jr < jp

C23_Now ==
    /\ spc \in {"convert", "recognize"} =>
          CallsFor(sidx, {"condition", "price"}) = {}
    /\ spc = "enrich" =>
          /\ LookupsIssued(sidx, Description(vision))
          /\ pend.cond.state = "pending" \/ pend.price.state \in {"pending", "stuck"}
          /\ Len(finalResults) = sidx - 1

\* when the handler starts to wait for the two lookups, neither request
\* that was made has resolved
C23_IssueStep ==
    (spc = "recognize" /\ spc' = "enrich") =>
        /\ pend'.cond.state = "pending"
        /\ \/ pend'.price.state = "pending"
           \/ PriceShortCircuit(Description(vision')) /\ pend'.price = ResolvedPrice(NA, Hash)

C23_Step ==
    (RowAppended /\ spc # "convert") =>
        LET row == RowsAfter[Len(RowsAfter)]
        IN  /\ spc = "enrich"
            /\ LookupsIssued(sidx, Description(vision))
            /\ \/ pend.cond.state = "resolved" /\ pend.price.state = "pending"
               \/ pend.cond.state = "pending" /\ pend.price.state = "resolved"
            /\ pend.cond.state = "resolved" => row.condition = pend.cond.value
            /\ pend.price.state = "resolved" =>
                  /\ row.currentRetailPrice = pend.price.price
                  /\ row.webLink = pend.price.link
            /\ row.condition \in {ConditionText, AiAnalysisFailed}
            /\ \E json \in PriceReplies(TRUE) :
                  /\ row.currentRetailPrice = PriceCallback(json).price
                  /\ row.webLink = PriceCallback(json).link
            /\ row = ResultRow(sfiles[sidx], vision, row.condition,
                               [price |-> row.currentRetailPrice,
                                link |-> row.webLink])

OutstandingCalls ==
    IF spc \in {"convert", "recognize"} THEN {Call(sidx, spc)}
    ELSE IF spc = "enrich"
    THEN (IF pend.cond.state = "pending" THEN {Call(sidx, "condition")} ELSE {})
         \cup (IF pend.price.state = "pending" THEN {Call(sidx, "price")} ELSE {})
    ELSE {}

\* C24: within a request the images are processed one after another: a call
\* for image j+1 is issued only when the row of image j has been appended,
\* the calls are issued in image order, and the outstanding calls belong to
\* one image and are at most two.
C24_ImagesSequential ==
    /\ \A j, m \in 1..Len(log) : j < m => log[j].img <= log[m].img
    /\ spc # "idle" =>
          /\ \A j \in 1..Len(log) : log[j].img <= Len(finalResults) + 1
          /\ \A k \in 1..Len(finalResults) : finalResults[k].fileName = sfiles[k]
          /\ \A c \in OutstandingCalls :
                /\ c.img = Len(finalResults) + 1
                /\ \E j \in 1..Len(log) : log[j] = c
    /\ Cardinality({ c.img : c \in OutstandingCalls }) <= 1
    /\ Cardinality(OutstandingCalls) <= 2

\* the row of image 1 is appended and both lookups of image 2 are under way
C24_Witness ==
    /\ spc = "enrich"
    /\ sidx = 2
    /\ Len(finalResults) = 1
    /\ Cardinality(OutstandingCalls) = 2
    /\ \E j \in 1..Len(log) : log[j].img = 1


\* how many calls of one kind were issued for image k of the request
Count(k, kind) == Cardinality(CallsFor(k, {kind}))

\* the images of the request for which a call was issued
ImagesCalled == { log[j].img : j \in 1..Len(log) }

\* each backend is called at most once for each image
AtMostOnce ==
    \A k \in ImagesCalled :
        \A kind \in {"convert", "recognize", "condition", "price"} :
            Count(k, kind) <= 1

\* row m of the handler's list is the one row of image m
OneRowPerImage ==
    \A m \in 1..Len(RowsSoFar) : RowsSoFar[m].fileName.id = FileId(sreq, m)

C25_Now ==
    /\ AtMostOnce
    /\ OneRowPerImage
    /\ \A m \in 1..Len(RowsSoFar) :
          RowsSoFar[m].brand # ConversionErrorBrand =>
              /\ Count(m, "recognize") = 1
              /\ Count(m, "condition") = 1
              /\ Count(m, "price") = IF RowsSoFar[m].description = NA THEN 0 ELSE 1
              /\ RowsSoFar[m].description = NA =>
                    /\ RowsSoFar[m].currentRetailPrice = NA
                    /\ RowsSoFar[m].webLink = Hash

C25_Step ==
    (RowAppended /\ spc = "enrich") =>
        LET row == RowsAfter[Len(RowsAfter)]
        IN  /\ row.condition \in {ConditionText, AiAnalysisFailed}
            /\ pend.cond.state = "resolved" => row.condition = pend.cond.value
            /\ pend.cond.state = "pending" => pend.price.state = "resolved"

HasLabel(reply) ==
    /\ reply.hasWeb
    /\ Len(reply.bestGuessLabels) > 0
    /\ reply.bestGuessLabels[1].label \notin {NULL, EmptyText}

\* the reply's first entity has a description with text in it
HasEntityDescription(reply) ==
    /\ reply.hasWeb
    /\ Len(reply.webEntities) > 0
    /\ reply.webEntities[1].description \notin {NULL, EmptyText}

C26_Now ==
    /\ OneRowPerImage
    /\ \A m \in 1..Len(RowsSoFar) :
          RowsSoFar[m].brand # ConversionErrorBrand =>
              /\ RowsSoFar[m].description # NULL
              /\ Len(RowsSoFar[m].description) > 0
    /\ (Answered /\ lastResponse.ok) =>
          /\ Len(lastResponse.results) = Len(filesToProcess)
          /\ \A m \in 1..Len(filesToProcess) :
                lastResponse.results[m].fileName = filesToProcess[m]

C26_Step ==
    (RowAppended /\ spc = "enrich") =>
        LET row == RowsAfter[Len(RowsAfter)]
        IN  /\ row.fileName = sfiles[sidx]
            /\ HasLabel(vision) =>
                  row.description = vision.bestGuessLabels[1].label
            /\ (~HasLabel(vision) /\ HasEntityDescription(vision)) =>
                  row.description = vision.webEntities[1].description
            /\ (~HasLabel(vision) /\ ~HasEntityDescription(vision)) =>
                  row.description = UnknownItem

\* C26: the description of a recognised image is its first best-guess label
\* when the reply has one, otherwise the description of its first entity
\* when it has one, otherwise "Unknown Item"; it is never empty, and the
\* image gets exactly one row in each of the three cases.
C26_DescriptionFallback == [](C26_Now) /\ [][C26_Step]_vars

\* two images were answered: the first described by the fallback literal, the
\* second by its first entity
C26_Witness ==
    /\ Answered
    /\ lastResponse.ok
    /\ Len(lastResponse.results) = 2
    /\ lastResponse.results[1].description = UnknownItem
    /\ lastResponse.results[2].description = EntityText
    /\ lastResponse.results[2].fileName = filesToProcess[2]


\* the step at which the run fails: the flag is reset, the rows stay, and
\* the one message is the error text of the response read (the default
\* naming the batch if it has none) or, when fetch itself failed, the
\* failure's message (the default naming the batch if it has none)
C27_FailStep ==
    (status = "Running" /\ status' = "Failed") =>
        LET k == BatchNumber(i)
        IN  /\ ~loading'
            /\ results' = results
            /\ allResults' = allResults
            /\ allResults = RowsUpTo(k - 1)
            /\ error = NULL
            /\ error' # NULL /\ Len(error') > 0
            /\ \/ \E r \in responses :
                    /\ r.id = k /\ ~r.ok
                    /\ responses' = responses \ {r}
                    /\ error' = IF r.error \in {NULL, EmptyText}
                                THEN FailedToAnalyzeBatch \o NatText(k) \o Dot
                                ELSE r.error
               \/ /\ responses' = responses
                  /\ error' \in {FetchFailed, ErrorInBatch \o NatText(k) \o Dot}

\* the step at which the run succeeds resets the flag and reports no error
C27_SucceedStep ==
    (status = "Running" /\ status' = "Succeeded") => (~loading' /\ error' = NULL)

C27_Now ==
    /\ Terminal => ~loading /\ cpc = "idle"
    /\ (Terminal /\ Len(selectedFiles) > 0) => ENABLED handleSubmit
    /\ (status = "Failed" /\ ~touched) =>
          /\ error # NULL /\ Len(error) > 0
          /\ results = RowsUpTo(FirstFail - 1)
    /\ (status = "Failed" /\ ~touched /\ lastResponse.id = FirstFail) =>
          error = lastResponse.error

C28_StartStep ==
    (status # "Running" /\ status' = "Running") =>
        /\ results' = << >>
        /\ error' = NULL
        /\ progress' = Zero
        /\ allResults' = << >>
        /\ received' = << >>
        /\ requests = {} /\ responses = {}
        /\ requests' = {Fetch(selectedFiles, 0)}
        /\ filesToProcess' = selectedFiles

\* the result list holds rows of the current run only: the rows of its
\* batches that came back, or nothing
C28_Now ==
    /\ results \in {<< >>, RowsUpTo(SucceededBatches)}
    /\ Len(results) <= Len(filesToProcess)
    /\ \A m \in 1..Len(results) : results[m].fileName = filesToProcess[m]
    /\ (status = "Running" /\ received = << >>) =>
          (results = << >> /\ error = NULL /\ progress = Zero)

\* C28: starting a run clears the state of the run before it before any
\* request is sent (empty result list, no error, progress 0), so after any
\* sequence of runs the result list holds only rows returned by batches of
\* the run started last.
C28_NewRunClears == [](C28_Now) /\ [][C28_StartStep]_vars

\* a run of one file was started, with nothing shown, after a run whose
\* third batch the handler had answered
C28_Witness ==
    /\ status = "Running"
    /\ Len(filesToProcess) = 1
    /\ sreq = 3
    /\ received = << >>
    /\ requests = {Fetch(filesToProcess, 0)}
    /\ results = << >>
    /\ error = NULL
    /\ progress = Zero

\* C29: once the selection has been changed the result list stays empty
\* until a new run is started, in every interleaving: no row computed for
\* the selection before reappears, also when the change is made while a run
\* is in flight.
C29_Claim == touched => results = << >>


\* while a run is in flight a run cannot be started, and one batch request
\* of it at most is under way
C30_Now ==
    /\ loading <=> status = "Running"
    /\ loading => ~ENABLED handleSubmit
    /\ loading => (cpc = "await" /\ Outstanding = 1)
    /\ ~loading => (cpc = "idle" /\ Outstanding = 0)

\* a step taken while a run is in flight does not restart it, and it writes
\* the result list, the progress or the error only as the selection change
\* does (both emptied) or as the continuation of that run does, on the
\* outcome of the batch it awaits
C30_Step ==
    status = "Running" =>
        /\ filesToProcess' = filesToProcess
        /\ sent' = sent \/ sent' = Append(sent, Len(sent) + 1)
        /\ received' = received \/ Len(received') = Len(received) + 1
        /\ (results' # results \/ progress' # progress \/ error' # error) =>
              \/ /\ results' = << >> /\ error' = NULL
                 /\ progress' = progress /\ received' = received
              \/ /\ Len(received') = Len(received) + 1
                 /\ received'[Len(received')].k = BatchNumber(i)
                 /\ received'[Len(received')].k = Len(received')

\* C30: at most one run is in flight at any time: while a run is Running no
\* second run can be started, so the result list, the progress and the
\* error are never written by two overlapping runs.
C30_OneRunAtATime == [](C30_Now) /\ [][C30_Step]_vars

\* a run is in flight with its second batch under way, a selection is
\* there, and no run can be started
C30_Witness ==
    /\ status = "Running"
    /\ Len(selectedFiles) > 0
    /\ sent = <<1, 2>>
    /\ Len(received) = 1
    /\ Len(results) = BATCH_SIZE
    /\ ~ENABLED handleSubmit


\* the files of the batch the handler took last
FilesOfRequest == Slice(filesToProcess, (sreq - 1) * BATCH_SIZE)

\* the transcoder fails on this file
ConversionFails(file) == IsHeic(file) /\ file.content = "corrupt"

\* C31: every successful response holds exactly one row per uploaded file,
\* in upload order, row m carrying the name of file m, whether the file was
\* recognised or ended as a conversion error; so after a Succeeded run the
\* aggregated list holds exactly one row per file the run was started with,
\* in selection order, and it is the list shown and the selection itself as
\* long as the selection was not changed since.
C31_OneRowPerFile ==
    /\ (Answered /\ lastResponse.ok) =>
          /\ Len(lastResponse.results) = Len(FilesOfRequest)
          /\ \A m \in 1..Len(FilesOfRequest) :
                /\ lastResponse.results[m].fileName = FilesOfRequest[m]
                /\ lastResponse.results[m].brand = ConversionErrorBrand
                      <=> ConversionFails(FilesOfRequest[m])
    /\ status = "Succeeded" =>
          /\ Len(allResults) = Len(filesToProcess)
          /\ \A m \in 1..Len(filesToProcess) :
                allResults[m].fileName = filesToProcess[m]
          /\ ~touched => (results = allResults /\ selectedFiles = filesToProcess)

\* a run over the largest selection succeeded: one row per file in selection
\* order, the third of them a conversion error, the last alone in its batch
C31_Witness ==
    /\ status = "Succeeded"
    /\ ~touched
    /\ Len(selectedFiles) = (MaxBatches - 1) * BATCH_SIZE + 1
    /\ Len(results) = Len(selectedFiles)
    /\ results[3].brand = ConversionErrorBrand
    /\ results[3].fileName = selectedFiles[3]
    /\ results[Len(results)].fileName = selectedFiles[Len(selectedFiles)]
    /\ Len(lastResponse.results) = 1

----------------------------------------------------------------------------
\* Liveness: every external call that was made comes back, and the page and
\* the route take every step they can take

Fairness ==
    /\ WF_vars(PostStart \/ FetchFails)
    /\ WF_vars(ReceiveResponse)
    /\ WF_vars(ConvertReturn(FALSE))
    /\ WF_vars(RecognizeReturn(FALSE) \/ RecognizeFails)
    /\ WF_vars(ConditionReturn(FALSE))
    /\ WF_vars(PriceReturn(FALSE) \/ PriceCallFails)

LiveSpec == Init /\ [][Next]_vars /\ Fairness

\* C10: if every external call eventually returns, every started run
\* eventually reaches Succeeded or Failed and every request taken by the
\* handler is eventually answered.
C10_Claim ==
    /\ (status = "Running") ~> Terminal
    /\ (spc # "idle") ~> (spc = "idle")

====
